---- MODULE Spec2Model ----
(***************************************************************************)
(* A model of scaff: the snapshot store and the default-scaff config       *)
(* (src/src/pattern.rs), the reconciler (src/src/validator.rs), the        *)
(* skeleton generator (src/src/generator.rs) and the extraction of names   *)
(* from a syntax tree (src/src/scanner.rs).                                *)
(*                                                                         *)
(* Strings whose characters the code inspects (scaff names, file names)    *)
(* are sequences of one-character strings; all other strings are atoms.    *)
(* An Option<T> is a sequence of length 0 (None) or 1 (Some).              *)
(***************************************************************************)
EXTENDS Integers, Sequences, FiniteSets, TLC

VARIABLES
    dirExists,  \* whether the directory "scaffs" exists
    fs,         \* the files of "scaffs": file name -> content
    config,     \* the ScaffConfig object the running command holds
    last,       \* the store/config operation that ran last, with its outcome
    saved,      \* per scaff name, the Snapshot last passed to save_pattern
    scaff,      \* the CodePattern a validation runs against
    current,    \* the FilePatterns the scan of the working tree returns
    result,     \* the ValidationResult of the last compare_structures
    edit,       \* the change of the working tree made before that comparison
    edits,      \* how many changes the working tree has had since the snapshot
    templates,  \* the directory "templates": absent, or file name -> content
    out,        \* the output directory of generate: its directories and files
    walk,       \* the extraction of one parsed file: its tree, the nodes still
                \* to visit and the names recorded so far
    scan,       \* the scan of a directory for one language: the entries still
                \* to look at and the FilePatterns collected so far
    cmd,        \* the command line of the last run of the program
    race        \* a save_pattern and a load_patterns of two processes running
                \* at once: where each of them is

vars == <<dirExists, fs, config, last, saved,
          scaff, current, result, edit, edits, templates, out, walk, scan,
          cmd, race>>

storeVars == <<dirExists, fs, config, last, saved>>
compareVars == <<scaff, current, result, edit, edits>>
genVars == <<templates, out, walk, scan, cmd, race>>

-----------------------------------------------------------------------------
(* Strings *)

UpperAlpha == <<"A","B","C","D","E","F","G","H","I","J","K","L","M",
                "N","O","P","Q","R","S","T","U","V","W","X","Y","Z">>
LowerAlpha == <<"a","b","c","d","e","f","g","h","i","j","k","l","m",
                "n","o","p","q","r","s","t","u","v","w","x","y","z">>

\* char::to_lowercase on the ASCII range
ToLowerChar(c) ==
    IF \E i \in 1..Len(UpperAlpha) : UpperAlpha[i] = c
    THEN LowerAlpha[CHOOSE i \in 1..Len(UpperAlpha) : UpperAlpha[i] = c]
    ELSE c

\* str::to_lowercase
to_lowercase(s) == [i \in 1..Len(s) |-> ToLowerChar(s[i])]

\* str::replace(from, to) for a one-character pattern
replace(s, from, to) == [i \in 1..Len(s) |-> IF s[i] = from THEN to ELSE s[i]]

JsonSuffix == <<".", "j", "s", "o", "n">>
JsonExt == <<"j", "s", "o", "n">>
ConfigFileName == <<"c", "o", "n", "f", "i", "g">> \o JsonSuffix

\* Path::extension of a file name: the part after the last ".", None when the
\* name has no "." or its only "." is the first character.
extension(fname) ==
    LET dots == {i \in 1..Len(fname) : fname[i] = "."}
        lastDot == CHOOSE i \in dots : \A j \in dots : j <= i
    IN  IF dots = {} \/ lastDot = 1
        THEN <<>>
        ELSE <<SubSeq(fname, lastDot + 1, Len(fname))>>

-----------------------------------------------------------------------------
(* The values the commands are given *)

NameApi == <<"a", "p", "i">>
NameMyApi == <<"M", "y", " ", "A", "p", "i">>
NameMyApiKey == <<"m", "y", "_", "a", "p", "i">>
NameConfig == <<"c", "o", "n", "f", "i", "g">>

ScaffNames == {NameApi, NameMyApi, NameMyApiKey, NameConfig}

\* FilePattern (pattern.rs:16-23)
FilePattern(path, ext, classes, functions, structs, implementations) ==
    [path |-> path, extension |-> ext, classes |-> classes,
     functions |-> functions, structs |-> structs,
     implementations |-> implementations]

\* CodePattern (pattern.rs:7-13)
CodePattern(name, description, language, files, created_at) ==
    [name |-> name, description |-> description, language |-> language,
     files |-> files, created_at |-> created_at]

FilesV1 == <<FilePattern("src/a", "rs", <<"K">>, <<"f", "g">>, <<"S">>, <<"I">>)>>
FilesV2 == <<FilePattern("src/a", "rs", <<>>, <<"g", "f", "f">>, <<>>, <<>>),
             FilePattern("src/b", "rs", <<"K">>, <<>>, <<"S", "T">>, <<>>)>>

\* The snapshots the save command is run with: two versions under each name.
StorePatterns ==
    {CodePattern(n, "first scan", "Rust", FilesV1, "t1") : n \in ScaffNames}
    \cup {CodePattern(n, "second scan", "Rust", FilesV2, "t2") : n \in ScaffNames}

-----------------------------------------------------------------------------
(* JSON documents, as serde_json writes and reads them *)

JNull == [json |-> "null"]
JString(s) == [json |-> "string", value |-> s]
JArray(items) == [json |-> "array", items |-> items]
JObject(members) == [json |-> "object", members |-> members]

IsJString(v) == v.json = "string"
IsJStringArray(v) ==
    v.json = "array" /\ \A i \in 1..Len(v.items) : IsJString(v.items[i])
HasKeys(v, keys) == v.json = "object" /\ keys \subseteq DOMAIN v.members

JStrings(names) == JArray([i \in 1..Len(names) |-> JString(names[i])])
Strings(v) == [i \in 1..Len(v.items) |-> v.items[i].value]

\* #[derive(Serialize)] for FilePattern
FilePatternToJson(f) ==
    JObject([path |-> JString(f.path),
             extension |-> JString(f.extension),
             classes |-> JStrings(f.classes),
             functions |-> JStrings(f.functions),
             structs |-> JStrings(f.structs),
             implementations |-> JStrings(f.implementations)])

\* #[derive(Deserialize)] for FilePattern: every field is required, unknown
\* fields are ignored
FilePatternFields == {"path", "extension", "classes", "functions", "structs",
                      "implementations"}

IsFilePatternJson(v) ==
    /\ HasKeys(v, FilePatternFields)
    /\ IsJString(v.members.path)
    /\ IsJString(v.members.extension)
    /\ IsJStringArray(v.members.classes)
    /\ IsJStringArray(v.members.functions)
    /\ IsJStringArray(v.members.structs)
    /\ IsJStringArray(v.members.implementations)

FilePatternFromJson(v) ==
    FilePattern(v.members.path.value, v.members.extension.value,
                Strings(v.members.classes), Strings(v.members.functions),
                Strings(v.members.structs), Strings(v.members.implementations))

\* serde_json::to_string_pretty(pattern), pattern: &CodePattern
CodePatternToJson(p) ==
    JObject([name |-> JString(p.name),
             description |-> JString(p.description),
             language |-> JString(p.language),
             files |-> JArray([i \in 1..Len(p.files) |->
                                  FilePatternToJson(p.files[i])]),
             created_at |-> JString(p.created_at)])

CodePatternFields == {"name", "description", "language", "files", "created_at"}

IsCodePatternJson(v) ==
    /\ HasKeys(v, CodePatternFields)
    /\ IsJString(v.members.name)
    /\ IsJString(v.members.description)
    /\ IsJString(v.members.language)
    /\ v.members.files.json = "array"
    /\ \A i \in 1..Len(v.members.files.items) :
           IsFilePatternJson(v.members.files.items[i])
    /\ IsJString(v.members.created_at)

\* serde_json::from_str::<CodePattern>(content): Ok(pattern) or Err
CodePatternFromJson(v) ==
    IF IsCodePatternJson(v)
    THEN [ok |-> TRUE,
          value |-> CodePattern(
              v.members.name.value, v.members.description.value,
              v.members.language.value,
              [i \in 1..Len(v.members.files.items) |->
                  FilePatternFromJson(v.members.files.items[i])],
              v.members.created_at.value)]
    ELSE [ok |-> FALSE]

\* ScaffConfig (pattern.rs:31-33) and ScaffConfig::new
ScaffConfig(default_scaff) == [default_scaff |-> default_scaff]
ScaffConfig_new == ScaffConfig(<<>>)

\* serde_json::to_string_pretty(self), self: &ScaffConfig
ScaffConfigToJson(c) ==
    JObject([default_scaff |->
                IF c.default_scaff = <<>> THEN JNull
                ELSE JString(c.default_scaff[1])])

\* serde_json::from_str::<ScaffConfig>(content): an Option field may be
\* missing or null, unknown fields are ignored
ScaffConfigFromJson(v) ==
    IF v.json # "object" THEN [ok |-> FALSE]
    ELSE IF "default_scaff" \notin DOMAIN v.members
              \/ v.members.default_scaff.json = "null"
         THEN [ok |-> TRUE, value |-> ScaffConfig(<<>>)]
    ELSE IF IsJString(v.members.default_scaff)
         THEN [ok |-> TRUE,
               value |-> ScaffConfig(<<v.members.default_scaff.value>>)]
    ELSE [ok |-> FALSE]

-----------------------------------------------------------------------------
(* The store directory *)

\* fs::write(path, content) inside the directory
WriteFile(files, fname, content) ==
    [f \in DOMAIN files \cup {fname} |->
        IF f = fname THEN content ELSE files[f]]

\* The orders in which fs::read_dir may return the entries of the directory
ReadDirOrders(files) ==
    {o \in [1..Cardinality(DOMAIN files) -> DOMAIN files] :
        \A i, j \in DOMAIN o : i # j => o[i] # o[j]}

\* pattern.name.replace(" ", "_").to_lowercase() + ".json" (pattern.rs:105)
PatternFileName(name) == to_lowercase(replace(name, " ", "_")) \o JsonSuffix

\* IsPatternFile without the exclusion of the config file
IsPatternFile_config_too(fname) == extension(fname) = <<JsonExt>>

\* The test of pattern.rs:133 on one directory entry
IsPatternFile(fname) == extension(fname) = <<JsonExt>> /\ fname # ConfigFileName

RECURSIVE LoadEntries(_, _)
\* The loop of ScaffDirectory::load_patterns over the entries, in order
LoadEntries(files, order) ==
    IF order = <<>> THEN <<>>
    ELSE LET fname == Head(order)
             parsed == CodePatternFromJson(files[fname])
             rest == LoadEntries(files, Tail(order))
         IN  IF IsPatternFile(fname) /\ parsed.ok
             THEN <<parsed.value>> \o rest
             ELSE rest

\* ScaffDirectory::load_patterns, the directory read in the given order
load_patterns(exists, files, order) ==
    IF ~exists THEN <<>> ELSE LoadEntries(files, order)

\* ScaffConfig::load: Ok(config) or Err
ScaffConfig_load(exists, files) ==
    IF ~(exists /\ ConfigFileName \in DOMAIN files)
    THEN [ok |-> TRUE, value |-> ScaffConfig_new]
    ELSE ScaffConfigFromJson(files[ConfigFileName])

-----------------------------------------------------------------------------
(* The store and config operations (pattern.rs) *)

NoResult == [scaff_name |-> "", is_valid |-> TRUE, missing_files |-> <<>>,
             extra_files |-> <<>>, missing_items |-> <<>>,
             extra_items |-> <<>>, suggestions |-> <<>>]
NoEdit == [kind |-> "none"]
NoScaff == CodePattern(<<>>, "", "", <<>>, "")

\* ScaffDirectory::save_pattern (pattern.rs:98-117). `fresh` notes, for the
\* properties, whether the directory held no file before the call.
save_pattern(pattern) ==
    /\ dirExists' = TRUE
    /\ fs' = WriteFile(fs, PatternFileName(pattern.name),
                       CodePatternToJson(pattern))
    /\ last' = [op |-> "save_pattern", pattern |-> pattern, result |-> "Ok",
                fresh |-> (DOMAIN fs = {})]
    /\ saved' = [saved EXCEPT ![pattern.name] = <<pattern>>]
    /\ UNCHANGED config

\* LoadAll creating the directory when it is absent
LoadAll_creating_dir(order) ==
    /\ last' = [op |-> "load_patterns", result |-> "Ok",
                patterns |-> load_patterns(dirExists, fs, order)]
    /\ dirExists' = TRUE
    /\ UNCHANGED <<fs, config, saved>>

\* A call of ScaffDirectory::load_patterns (pattern.rs:119-152) whose
\* read_dir returns the entries in `order`
LoadAll(order) ==
    /\ last' = [op |-> "load_patterns", result |-> "Ok",
                patterns |-> load_patterns(dirExists, fs, order)]
    /\ UNCHANGED <<dirExists, fs, config, saved>>

\* let mut config = ScaffConfig::new() (pattern.rs:36-40)
ConfigNew ==
    /\ config' = ScaffConfig_new
    /\ last' = [op |-> "config_new", result |-> "Ok"]
    /\ UNCHANGED <<dirExists, fs, saved>>

\* let mut config = ScaffConfig::load()? (pattern.rs:42-52, cli.rs:327-333)
ConfigLoad ==
    LET loaded == ScaffConfig_load(dirExists, fs)
    IN  /\ config' = IF loaded.ok THEN loaded.value ELSE config
        /\ last' = [op |-> "config_load",
                    result |-> IF loaded.ok THEN "Ok" ELSE "ParseError"]
        /\ UNCHANGED <<dirExists, fs, saved>>

\* ScaffConfig::save (pattern.rs:54-64): the files after self is written
ScaffConfig_save(self, files) ==
    WriteFile(files, ConfigFileName, ScaffConfigToJson(self))

\* set_default_scaff with the assignment of line 73 moved before the check
set_default_scaff_assign_first(scaff_name, order) ==
    LET patterns == load_patterns(dirExists, fs, order)
    IN  /\ UNCHANGED saved
        /\ /\ config' = [config EXCEPT !.default_scaff = <<scaff_name>>]
           /\ IF ~\E i \in 1..Len(patterns) : patterns[i].name = scaff_name
              THEN /\ last' = [op |-> "set_default_scaff", name |-> scaff_name,
                               result |-> "NotFound"]
                   /\ UNCHANGED <<dirExists, fs>>
              ELSE /\ dirExists' = TRUE
                   /\ fs' = ScaffConfig_save(config', fs)
                   /\ last' = [op |-> "set_default_scaff", name |-> scaff_name,
                               result |-> "Ok"]

\* set_default_scaff comparing the file-name key instead of the stored name
set_default_scaff_by_key(scaff_name, order) ==
    LET patterns == load_patterns(dirExists, fs, order)
    IN  /\ UNCHANGED saved
        /\ IF ~\E i \in 1..Len(patterns) :
                  PatternFileName(patterns[i].name) = PatternFileName(scaff_name)
           THEN /\ last' = [op |-> "set_default_scaff", name |-> scaff_name,
                            result |-> "NotFound"]
                /\ UNCHANGED <<dirExists, fs, config>>
           ELSE /\ config' = [config EXCEPT !.default_scaff = <<scaff_name>>]
                /\ dirExists' = TRUE
                /\ fs' = ScaffConfig_save(config', fs)
                /\ last' = [op |-> "set_default_scaff", name |-> scaff_name,
                            result |-> "Ok"]

\* ScaffConfig::set_default_scaff (pattern.rs:66-77), load_patterns reading
\* the directory in `order`
set_default_scaff(scaff_name, order) ==
    LET patterns == load_patterns(dirExists, fs, order)
    IN  /\ UNCHANGED saved
        /\ IF ~\E i \in 1..Len(patterns) : patterns[i].name = scaff_name
           THEN /\ last' = [op |-> "set_default_scaff", name |-> scaff_name,
                            result |-> "NotFound"]
                /\ UNCHANGED <<dirExists, fs, config>>
           ELSE /\ config' = [config EXCEPT !.default_scaff = <<scaff_name>>]
                /\ dirExists' = TRUE
                /\ fs' = ScaffConfig_save(config', fs)
                /\ last' = [op |-> "set_default_scaff", name |-> scaff_name,
                            result |-> "Ok"]

\* ScaffConfig::clear_default_scaff (pattern.rs:83-88)
clear_default_scaff ==
    /\ config' = [config EXCEPT !.default_scaff = <<>>]
    /\ dirExists' = TRUE
    /\ fs' = ScaffConfig_save(config', fs)
    /\ last' = [op |-> "clear_default_scaff", result |-> "Ok"]
    /\ UNCHANGED saved

StoreInit ==
    /\ dirExists \in BOOLEAN
    /\ fs = <<>>
    /\ config = ScaffConfig_new
    /\ last = [op |-> "none", result |-> "Ok"]
    /\ saved = [n \in ScaffNames |-> <<>>]

\* No "templates" directory, no output directory, no file being scanned, no
\* command run and no two processes at work
NoTemplates == <<>>
NoOutput == [dirs |-> {}, files |-> <<>>]
NoWalk == [phase |-> "none"]
NoScan == [phase |-> "none"]
NoCmd == [command |-> "none"]
NoRace == [phase |-> "none"]

Init ==
    /\ StoreInit
    /\ scaff = NoScaff
    /\ current = <<>>
    /\ result = NoResult
    /\ edit = NoEdit
    /\ edits = 0
    /\ templates = NoTemplates
    /\ out = NoOutput
    /\ walk = NoWalk
    /\ scan = NoScan
    /\ cmd = NoCmd
    /\ race = NoRace

Next ==
    \/ \E p \in StorePatterns : save_pattern(p) /\ UNCHANGED <<compareVars, genVars>>
    \/ \E o \in ReadDirOrders(fs) : LoadAll(o) /\ UNCHANGED <<compareVars, genVars>>
    \/ ConfigNew /\ UNCHANGED <<compareVars, genVars>>
    \/ ConfigLoad /\ UNCHANGED <<compareVars, genVars>>
    \/ \E n \in ScaffNames, o \in ReadDirOrders(fs) :
           set_default_scaff(n, o) /\ UNCHANGED <<compareVars, genVars>>
    \/ clear_default_scaff /\ UNCHANGED <<compareVars, genVars>>

Spec == Init /\ [][Next]_vars

\* Runs that only save snapshots and list them (cli.rs: save, list)
NextSave ==
    \/ \E p \in StorePatterns : save_pattern(p) /\ UNCHANGED <<compareVars, genVars>>
    \/ \E o \in ReadDirOrders(fs) : LoadAll(o) /\ UNCHANGED <<compareVars, genVars>>

SpecSave == Init /\ [][NextSave]_vars

-----------------------------------------------------------------------------
(* The reconciler (validator.rs) *)

\* ValidationIssue (validator.rs:17-22)
ValidationIssue(file_path, item_type, item_name) ==
    [file_path |-> file_path, item_type |-> item_type, item_name |-> item_name]

\* The suggestion texts, by the format string and its arguments
SuggestCreateFile(path, items) ==
    [text |-> "Create missing file: {} (should contain {} items)",
     path |-> path, items |-> items]
SuggestGenerate(scaff_name) ==
    [text |-> "Consider running 'scaff generate {}' to create missing files",
     scaff |-> scaff_name]
SuggestReview ==
    [text |-> "Review missing items and implement them according to your scaff pattern"]
SuggestUpdate ==
    [text |-> "Consider updating your scaff pattern to include the new files in your architecture"]

\* files.iter().map(|f| (f.path.clone(), f)).collect::<HashMap<_, _>>():
\* a later file replaces an earlier one of the same path
PathMap(files) ==
    [p \in {files[i].path : i \in 1..Len(files)} |->
        files[CHOOSE i \in 1..Len(files) :
                  /\ files[i].path = p
                  /\ \A j \in 1..Len(files) : files[j].path = p => j <= i]]

\* scaff_items.iter().collect::<HashSet<_>>()
HashSetOf(items) == {items[i] : i \in 1..Len(items)}

RECURSIVE PushMissingItems(_, _, _, _, _)
\* The loop of validator.rs:230-239
PushMissingItems(res, file_path, item_type, scaff_items, current_set) ==
    IF scaff_items = <<>> THEN res
    ELSE LET item == Head(scaff_items)
             pushed ==
                 IF item \notin current_set
                 THEN [res EXCEPT
                          !.missing_items =
                              Append(@, ValidationIssue(file_path, item_type, item)),
                          !.is_valid = FALSE]
                 ELSE res
         IN  PushMissingItems(pushed, file_path, item_type,
                              Tail(scaff_items), current_set)

RECURSIVE PushExtraItems_invalidating(_, _, _, _, _)
\* PushExtraItems with an extra item also clearing is_valid
PushExtraItems_invalidating(res, file_path, item_type, current_items, scaff_set) ==
    IF current_items = <<>> THEN res
    ELSE LET item == Head(current_items)
             pushed ==
                 IF item \notin scaff_set
                 THEN [res EXCEPT
                          !.extra_items =
                              Append(@, ValidationIssue(file_path, item_type, item)),
                          !.is_valid = FALSE]
                 ELSE res
         IN  PushExtraItems_invalidating(pushed, file_path, item_type,
                                         Tail(current_items), scaff_set)

RECURSIVE PushExtraItems(_, _, _, _, _)
\* The loop of validator.rs:242-250
PushExtraItems(res, file_path, item_type, current_items, scaff_set) ==
    IF current_items = <<>> THEN res
    ELSE LET item == Head(current_items)
             pushed ==
                 IF item \notin scaff_set
                 THEN [res EXCEPT
                          !.extra_items =
                              Append(@, ValidationIssue(file_path, item_type, item))]
                 ELSE res
         IN  PushExtraItems(pushed, file_path, item_type,
                            Tail(current_items), scaff_set)

\* ArchitectureValidator::compare_items (validator.rs:218-251)
compare_items(res, file_path, item_type, scaff_items, current_items) ==
    LET scaff_set == HashSetOf(scaff_items)
        current_set == HashSetOf(current_items)
        r1 == PushMissingItems(res, file_path, item_type, scaff_items, current_set)
    IN  PushExtraItems(r1, file_path, item_type, current_items, scaff_set)

\* ArchitectureValidator::compare_file_items (validator.rs:173-216)
compare_file_items(res, scaff_file, current_file) ==
    LET file_path == scaff_file.path
        r1 == compare_items(res, file_path, "class",
                            scaff_file.classes, current_file.classes)
        r2 == compare_items(r1, file_path, "function",
                            scaff_file.functions, current_file.functions)
        r3 == compare_items(r2, file_path, "struct",
                            scaff_file.structs, current_file.structs)
    IN  compare_items(r3, file_path, "implementation",
                      scaff_file.implementations, current_file.implementations)

\* classes.len() + functions.len() + structs.len() + implementations.len()
ItemCount(f) ==
    Len(f.classes) + Len(f.functions) + Len(f.structs) + Len(f.implementations)

RECURSIVE CheckMissingFiles_three_categories(_, _, _)
\* CheckMissingFiles with the count of line 126-129 leaving out implementations
CheckMissingFiles_three_categories(res, scaff_files, current_files_map) ==
    IF scaff_files = <<>> THEN res
    ELSE LET scaff_file == Head(scaff_files)
             pushed ==
                 IF scaff_file.path \notin DOMAIN current_files_map
                 THEN [res EXCEPT
                          !.missing_files = Append(@, scaff_file.path),
                          !.is_valid = FALSE,
                          !.suggestions =
                              Append(@, SuggestCreateFile(scaff_file.path,
                                         Len(scaff_file.classes)
                                             + Len(scaff_file.functions)
                                             + Len(scaff_file.structs)))]
                 ELSE res
         IN  CheckMissingFiles_three_categories(pushed, Tail(scaff_files),
                                                current_files_map)

RECURSIVE CheckMissingFiles(_, _, _)
\* The loop of validator.rs:117-132
CheckMissingFiles(res, scaff_files, current_files_map) ==
    IF scaff_files = <<>> THEN res
    ELSE LET scaff_file == Head(scaff_files)
             pushed ==
                 IF scaff_file.path \notin DOMAIN current_files_map
                 THEN [res EXCEPT
                          !.missing_files = Append(@, scaff_file.path),
                          !.is_valid = FALSE,
                          !.suggestions =
                              Append(@, SuggestCreateFile(scaff_file.path,
                                                          ItemCount(scaff_file)))]
                 ELSE res
         IN  CheckMissingFiles(pushed, Tail(scaff_files), current_files_map)

RECURSIVE CheckExtraFiles_invalidating(_, _, _)
\* CheckExtraFiles with an extra file also clearing is_valid
CheckExtraFiles_invalidating(res, current_files, scaff_files_map) ==
    IF current_files = <<>> THEN res
    ELSE LET current_file == Head(current_files)
             pushed ==
                 IF current_file.path \notin DOMAIN scaff_files_map
                 THEN [res EXCEPT !.extra_files = Append(@, current_file.path),
                                  !.is_valid = FALSE]
                 ELSE res
         IN  CheckExtraFiles_invalidating(pushed, Tail(current_files),
                                          scaff_files_map)

RECURSIVE CheckExtraFiles(_, _, _)
\* The loop of validator.rs:135-140
CheckExtraFiles(res, current_files, scaff_files_map) ==
    IF current_files = <<>> THEN res
    ELSE LET current_file == Head(current_files)
             pushed ==
                 IF current_file.path \notin DOMAIN scaff_files_map
                 THEN [res EXCEPT !.extra_files = Append(@, current_file.path)]
                 ELSE res
         IN  CheckExtraFiles(pushed, Tail(current_files), scaff_files_map)

RECURSIVE CompareMatchingFiles(_, _, _)
\* The loop of validator.rs:143-147
CompareMatchingFiles(res, scaff_files, current_files_map) ==
    IF scaff_files = <<>> THEN res
    ELSE LET scaff_file == Head(scaff_files)
             compared ==
                 IF scaff_file.path \in DOMAIN current_files_map
                 THEN compare_file_items(res, scaff_file,
                                         current_files_map[scaff_file.path])
                 ELSE res
         IN  CompareMatchingFiles(compared, Tail(scaff_files), current_files_map)

\* OverallSuggestions proposing the update for any extra file
OverallSuggestions_any_extra(res, scaff_name) ==
    LET s1 == IF Len(res.missing_files) > 0
              THEN Append(res.suggestions, SuggestGenerate(scaff_name))
              ELSE res.suggestions
        s2 == IF Len(res.missing_items) > 0 THEN Append(s1, SuggestReview) ELSE s1
        s3 == IF Len(res.extra_files) > 0 THEN Append(s2, SuggestUpdate) ELSE s2
    IN  [res EXCEPT !.suggestions = s3]

\* The overall suggestions of validator.rs:150-168
OverallSuggestions(res, scaff_name) ==
    LET s1 == IF Len(res.missing_files) > 0
              THEN Append(res.suggestions, SuggestGenerate(scaff_name))
              ELSE res.suggestions
        s2 == IF Len(res.missing_items) > 0 THEN Append(s1, SuggestReview) ELSE s1
        s3 == IF Len(res.extra_files) > 0
                  /\ Len(res.extra_files) > Len(res.missing_files)
              THEN Append(s2, SuggestUpdate)
              ELSE s2
    IN  [res EXCEPT !.suggestions = s3]

\* ArchitectureValidator::compare_structures (validator.rs:92-171)
compare_structures(pattern, current_files) ==
    LET res0 == [scaff_name |-> pattern.name, is_valid |-> TRUE,
                 missing_files |-> <<>>, extra_files |-> <<>>,
                 missing_items |-> <<>>, extra_items |-> <<>>,
                 suggestions |-> <<>>]
        scaff_files == PathMap(pattern.files)
        current_files_map == PathMap(current_files)
        r1 == CheckMissingFiles(res0, pattern.files, current_files_map)
        r2 == CheckExtraFiles(r1, current_files, scaff_files)
        r3 == CompareMatchingFiles(r2, pattern.files, current_files_map)
    IN  OverallSuggestions(r3, pattern.name)

-----------------------------------------------------------------------------
(* Validation runs: a snapshot, and a working tree that drifts from it.    *)
(* Each step changes the scanned files once and runs compare_structures    *)
(* on the snapshot and the new scan (validator.rs:41-44).                  *)

MaxSize == 3    \* files plus declaration names of a snapshot
MaxEdits == 1   \* changes of the working tree

SnapshotPaths == {"src/a", "src/b"}
NewPath == "src/c"
ItemNames == {"f", "g"}
Categories == {"classes", "functions", "structs", "implementations"}

\* The item_type compare_file_items passes for each field (validator.rs:182-215)
ItemType(cat) ==
    CASE cat = "classes" -> "class"
      [] cat = "functions" -> "function"
      [] cat = "structs" -> "struct"
      [] cat = "implementations" -> "implementation"

RECURSIVE FilePool(_, _)
\* The FilePatterns of the given paths with at most n declaration names
FilePool(paths, n) ==
    IF n = 0
    THEN {FilePattern(p, "rs", <<>>, <<>>, <<>>, <<>>) : p \in paths}
    ELSE FilePool(paths, n - 1)
         \cup {[f EXCEPT ![cat] = Append(@, name)] :
                  f \in FilePool(paths, n - 1), cat \in Categories,
                  name \in ItemNames}

RECURSIVE FileLists(_, _)
\* The lists of k files with at most n declaration names in all
FileLists(k, n) ==
    IF k = 0 THEN {<<>>}
    ELSE UNION {{<<f>> \o rest : rest \in FileLists(k - 1, n - ItemCount(f))} :
                   f \in FilePool(SnapshotPaths, n)}

\* The file lists of the snapshots validated against
SnapshotFiles == UNION {FileLists(k, MaxSize - k) : k \in 0..MaxSize}

\* The files that appear in the working tree: empty, or with one function
AddedFiles ==
    {FilePattern(p, "rs", <<>>, fn, <<>>, <<>>) :
        p \in SnapshotPaths \cup {NewPath}, fn \in {<<>>, <<"f">>}}

RemoveAt(s, k) == SubSeq(s, 1, k - 1) \o SubSeq(s, k + 1, Len(s))
InsertAt(s, pos, x) == SubSeq(s, 1, pos) \o <<x>> \o SubSeq(s, pos + 1, Len(s))
Without(s, x) == SelectSeq(s, LAMBDA y : y # x)
PathsOf(files) == {files[i].path : i \in 1..Len(files)}

\* validate_against_scaff after the scan has returned new_files
Validate(new_files, change) ==
    /\ edits < MaxEdits
    /\ current' = new_files
    /\ result' = compare_structures(scaff, new_files)
    /\ edit' = change
    /\ edits' = edits + 1
    /\ UNCHANGED scaff

\* A declaration name disappears from one category of one file
RemoveItem(i, cat, name) ==
    /\ name \in HashSetOf(current[i][cat])
    /\ Validate([current EXCEPT ![i][cat] = Without(@, name)],
                [kind |-> "remove_item", path |-> current[i].path,
                 item_type |-> ItemType(cat), name |-> name])

\* A declaration is added to one category of one file
AddItem(i, cat, name) ==
    Validate([current EXCEPT ![i][cat] = Append(@, name)],
             [kind |-> "add_item", path |-> current[i].path,
              item_type |-> ItemType(cat), name |-> name])

\* Two neighbouring declarations of one category change places
SwapItems(i, cat, k) ==
    /\ k + 1 <= Len(current[i][cat])
    /\ Validate([current EXCEPT ![i][cat] =
                    [@ EXCEPT ![k] = current[i][cat][k + 1],
                              ![k + 1] = current[i][cat][k]]],
                [kind |-> "swap_items", path |-> current[i].path,
                 item_type |-> ItemType(cat), name |-> current[i][cat][k]])

\* A file appears in the scan, before or after the files already there
AddFile(f, pos) ==
    Validate(InsertAt(current, pos, f), [kind |-> "add_file", path |-> f.path])

\* A file disappears from the scan
RemoveFile(i) ==
    Validate(RemoveAt(current, i), [kind |-> "remove_file", path |-> current[i].path])

InitCompare ==
    /\ dirExists = FALSE
    /\ fs = <<>>
    /\ config = ScaffConfig_new
    /\ last = [op |-> "none", result |-> "Ok"]
    /\ saved = [n \in ScaffNames |-> <<>>]
    /\ scaff \in {CodePattern(NameApi, "scan", "Rust", fl, "t1") : fl \in SnapshotFiles}
    /\ current = scaff.files
    /\ result = compare_structures(scaff, current)
    /\ edit = NoEdit
    /\ edits = 0
    /\ templates = NoTemplates
    /\ out = NoOutput
    /\ walk = NoWalk
    /\ scan = NoScan
    /\ cmd = NoCmd
    /\ race = NoRace

NextCompare ==
    \/ \E i \in 1..Len(current), cat \in Categories, name \in ItemNames :
           RemoveItem(i, cat, name) /\ UNCHANGED <<storeVars, genVars>>
    \/ \E i \in 1..Len(current), cat \in Categories, name \in ItemNames :
           AddItem(i, cat, name) /\ UNCHANGED <<storeVars, genVars>>
    \/ \E i \in 1..Len(current), cat \in Categories, k \in 1..MaxSize :
           SwapItems(i, cat, k) /\ UNCHANGED <<storeVars, genVars>>
    \/ \E f \in AddedFiles, pos \in {0, Len(current)} :
           AddFile(f, pos) /\ UNCHANGED <<storeVars, genVars>>
    \/ \E i \in 1..Len(current) : RemoveFile(i) /\ UNCHANGED <<storeVars, genVars>>

SpecCompare == InitCompare /\ [][NextCompare]_vars

\* A second run that keeps what the first run reported
Rerun_accumulating ==
    /\ result' = [compare_structures(scaff, current) EXCEPT
                      !.missing_files = result.missing_files \o @,
                      !.extra_files = result.extra_files \o @,
                      !.missing_items = result.missing_items \o @,
                      !.extra_items = result.extra_items \o @]
    /\ edit' = [kind |-> "rerun"]
    /\ UNCHANGED <<scaff, current, edits>>

\* validate_against_scaff once more, the snapshot and the working tree as
\* they were: compare_structures starts from a new ValidationResult
\* (validator.rs:99-107) and new maps (validator.rs:110-114)
Rerun ==
    /\ result' = compare_structures(scaff, current)
    /\ edit' = [kind |-> "rerun"]
    /\ UNCHANGED <<scaff, current, edits>>

\* A file of the working tree moves to a path outside the snapshot
RenameFile(i) ==
    /\ NewPath \notin PathsOf(current)
    /\ Validate([current EXCEPT ![i].path = NewPath],
                [kind |-> "rename_file", path |-> current[i].path])

NextRerun ==
    \/ \E i \in 1..Len(current), cat \in Categories, name \in ItemNames :
           RemoveItem(i, cat, name) /\ UNCHANGED <<storeVars, genVars>>
    \/ \E f \in AddedFiles, pos \in {0, Len(current)} :
           AddFile(f, pos) /\ UNCHANGED <<storeVars, genVars>>
    \/ \E i \in 1..Len(current) : RemoveFile(i) /\ UNCHANGED <<storeVars, genVars>>
    \/ \E i \in 1..Len(current) : RenameFile(i) /\ UNCHANGED <<storeVars, genVars>>
    \/ Rerun /\ UNCHANGED <<storeVars, genVars>>

SpecRerun == InitCompare /\ [][NextRerun]_vars

-----------------------------------------------------------------------------
(* Validation against the store: files that other programs leave in the    *)
(* directory, and validate_against_scaff reading it (validator.rs:31-90).  *)

MaxForeign == 1   \* files in the directory that save_pattern did not write

\* The text "{ invalid json }" (pattern.rs:376): not a JSON document
JInvalid == [json |-> "invalid"]

InvalidFileName == <<"i", "n", "v", "a", "l", "i", "d">> \o JsonSuffix
CopyFileName == <<"c", "o", "p", "y">> \o JsonSuffix
BackupFileName == <<"a", "p", "i", ".", "b", "a", "k">>

\* What other programs write into the directory: text that is not JSON, a
\* JSON object that lacks the fields of a CodePattern, and copies of a stored
\* snapshot under another file name, with and without the extension "json"
\* (the copy with the extension is of the second scan)
ForeignFiles ==
    {[name |-> InvalidFileName, content |-> JInvalid],
     [name |-> InvalidFileName,
      content |-> JObject([name |-> JString(NameApi)])],
     [name |-> CopyFileName,
      content |-> CodePatternToJson(
                      CodePattern(NameApi, "second scan", "Rust", FilesV2, "t2"))],
     [name |-> BackupFileName,
      content |-> CodePatternToJson(
                      CodePattern(NameMyApi, "first scan", "Rust", FilesV1, "t1"))]}

ForeignNames == {f.name : f \in ForeignFiles}

\* fs::write(scaffs_dir.join(name), content) by another program, the
\* directory created first (pattern.rs:372-376)
ExternalWrite(f) ==
    /\ Cardinality((DOMAIN fs \cap ForeignNames) \cup {f.name}) <= MaxForeign
    /\ dirExists' = TRUE
    /\ fs' = WriteFile(fs, f.name, f.content)
    /\ last' = [op |-> "external_write", result |-> "Ok"]
    /\ UNCHANGED <<config, saved>>

\* The languages scan_current_codebase has a scanner for (validator.rs:73-86)
ValidationLanguages ==
    {"JavaScript/TypeScript", "JavaScript", "TypeScript", "Python", "Java",
     "Go", "Rust", "JSON", "HTML", "CSS"}

\* The error strings, by the format string and its arguments
ErrScaffNotFound(scaff_name) ==
    [text |-> "Scaff '{}' not found. Use 'scaff list' to see available scaffs.",
     name |-> scaff_name]
ErrValidationLanguage(language) ==
    [text |-> "Unsupported language for validation: {}", language |-> language]

\* load_scaff_pattern taking the last match instead of the first
load_scaff_pattern_last(patterns, scaff_name) ==
    LET hits == {i \in 1..Len(patterns) : patterns[i].name = scaff_name}
    IN  IF hits = {}
        THEN [ok |-> FALSE, error |-> ErrScaffNotFound(scaff_name)]
        ELSE [ok |-> TRUE,
              value |-> patterns[CHOOSE i \in hits : \A j \in hits : j <= i]]

\* patterns.into_iter().find(|p| p.name == scaff_name).ok_or_else(..)
\* (validator.rs:53-64)
load_scaff_pattern(patterns, scaff_name) ==
    LET hits == {i \in 1..Len(patterns) : patterns[i].name = scaff_name}
    IN  IF hits = {}
        THEN [ok |-> FALSE, error |-> ErrScaffNotFound(scaff_name)]
        ELSE [ok |-> TRUE,
              value |-> patterns[CHOOSE i \in hits : \A j \in hits : i <= j]]

\* ArchitectureValidator::validate_against_scaff (validator.rs:31-47):
\* read_dir returns the entries in `order`, the scan returns `scanned`.
\* `loaded` notes, for the properties, what load_patterns returned.
validate_against_scaff(scaff_name, order, scanned) ==
    LET patterns == load_patterns(dirExists, fs, order)
        found == load_scaff_pattern(patterns, scaff_name)
        call == [op |-> "validate_against_scaff", name |-> scaff_name,
                 loaded |-> patterns]
    IN  /\ UNCHANGED <<dirExists, fs, config, saved, edit, edits>>
        /\ IF ~found.ok
           THEN /\ last' = call @@ [result |-> "NotFound",
                                    returned |-> [ok |-> FALSE,
                                                  error |-> found.error]]
                /\ UNCHANGED <<scaff, current, result>>
           ELSE IF found.value.language \notin ValidationLanguages
           THEN /\ last' = call @@
                       [result |-> "UnsupportedLanguage",
                        returned |->
                            [ok |-> FALSE,
                             error |-> ErrValidationLanguage(found.value.language)]]
                /\ UNCHANGED <<scaff, current, result>>
           ELSE /\ scaff' = found.value
                /\ current' = scanned
                /\ result' = compare_structures(found.value, scanned)
                /\ last' = call @@ [result |-> "Ok",
                                    returned |-> [ok |-> TRUE, value |-> result']]

\* What the scan of the working tree returns when a validation runs
ScannedTrees == {FilesV1, FilesV2}

\* The snapshots saved before a validation: the first scan, under the names
\* whose file-name keys differ
ValidatePatterns ==
    {CodePattern(n, "first scan", "Rust", FilesV1, "t1") :
        n \in {NameApi, NameMyApi, NameConfig}}

InitValidate == Init

NextValidate ==
    \/ \E p \in ValidatePatterns : save_pattern(p) /\ UNCHANGED <<compareVars, genVars>>
    \/ \E f \in ForeignFiles : ExternalWrite(f) /\ UNCHANGED <<compareVars, genVars>>
    \/ \E o \in ReadDirOrders(fs) : LoadAll(o) /\ UNCHANGED <<compareVars, genVars>>
    \/ \E n \in ScaffNames, o \in ReadDirOrders(fs), t \in ScannedTrees :
           validate_against_scaff(n, o, t) /\ UNCHANGED genVars

SpecValidate == InitValidate /\ [][NextValidate]_vars

-----------------------------------------------------------------------------
(* The skeleton generator (generator.rs).  A path is the sequence of its    *)
(* components, each a sequence of characters; the output directory is the  *)
(* set of directories and the files under it, by their relative paths.     *)

Src == <<"s", "r", "c">>
Ui == <<"u", "i">>
MainRs == <<"m", "a", "i", "n", ".", "r", "s">>
IndexJs == <<"i", "n", "d", "e", "x", ".", "j", "s">>
AppTsx == <<"a", "p", "p", ".", "t", "s", "x">>
CargoToml == <<"C", "a", "r", "g", "o", ".", "t", "o", "m", "l">>
PackageJson == <<"p", "a", "c", "k", "a", "g", "e">> \o JsonSuffix

\* Path::file_stem of a file name: the part before the last ".", the whole
\* name when it has no "." or its only "." is the first character
file_stem(fname) ==
    LET dots == {i \in 1..Len(fname) : fname[i] = "."}
        lastDot == CHOOSE i \in dots : \A j \in dots : j <= i
    IN  IF dots = {} \/ lastDot = 1 THEN fname ELSE SubSeq(fname, 1, lastDot - 1)

\* The FilePattern the scanner builds for a path (scanner.rs:210-221)
GenFile(path, classes, functions, structs, implementations) ==
    LET ext == extension(path[Len(path)])
    IN  FilePattern(path, IF ext = <<>> THEN <<>> ELSE ext[1],
                    classes, functions, structs, implementations)

GenFilesRust ==
    <<GenFile(<<Src, MainRs>>, <<>>, <<"main">>, <<"S">>, <<"S">>),
      GenFile(<<Src, Ui, AppTsx>>, <<"App">>, <<"render">>, <<>>, <<>>)>>
GenFilesJs ==
    <<GenFile(<<Src, IndexJs>>, <<"K">>, <<"f">>, <<>>, <<>>),
      GenFile(<<Src, MainRs>>, <<>>, <<"main">>, <<"S">>, <<"S">>),
      GenFile(<<Src, Ui, AppTsx>>, <<"App">>, <<"render">>, <<>>, <<>>)>>

\* The snapshots generation is asked for: of the two languages it maps, of a
\* language only validation maps, and of a language nothing maps
GeneratePatterns ==
    {CodePattern(NameApi, "rust scan", "Rust", GenFilesRust, "t1"),
     CodePattern(NameApi, "python scan", "Python", GenFilesRust, "t2"),
     CodePattern(NameMyApi, "js scan", "JavaScript/TypeScript", GenFilesJs, "t1"),
     CodePattern(NameMyApi, "other scan", "UnsupportedLanguage", GenFilesJs, "t2")}

RustFileName == <<"r", "u", "s", "t", "_", "f", "i", "l", "e">>
JsFileName == <<"j", "s", "_", "f", "i", "l", "e">>
DefaultRustFileName == <<"d", "e", "f", "a", "u", "l", "t", "_">> \o RustFileName
DefaultJsFileName == <<"d", "e", "f", "a", "u", "l", "t", "_">> \o JsFileName
HbsSuffix == <<".", "h", "b", "s">>
HbsExt == <<"h", "b", "s">>

\* A template text the engine accepts, and one it rejects ("{{invalid syntax")
Template(id) == [valid |-> TRUE, id |-> id]
InvalidTemplate == [valid |-> FALSE]

\* The states of the directory "templates": absent, empty, or holding
\* override templates
TemplateDirs ==
    {NoTemplates,
     <<<<>>>>,
     <<[f \in {RustFileName \o HbsSuffix} |-> Template("user rust_file")]>>,
     <<[f \in {JsFileName \o HbsSuffix} |-> Template("user js_file")]>>,
     <<[f \in {RustFileName \o HbsSuffix, JsFileName \o HbsSuffix} |->
           IF f = RustFileName \o HbsSuffix THEN Template("user rust_file")
           ELSE Template("user js_file")]>>,
     <<[f \in {RustFileName \o HbsSuffix} |-> InvalidTemplate]>>}

\* load_templates_from_directory (generator.rs:247-274): the templates
\* registered under the file stems, or Err when a template does not compile
load_templates_from_directory(dir) ==
    LET hbs == {f \in DOMAIN dir : extension(f) = <<HbsExt>>}
    IN  IF \E f \in hbs : ~dir[f].valid
        THEN [ok |-> FALSE, error |-> [text |-> "TemplateError"]]
        ELSE [ok |-> TRUE,
              value |-> [n \in {file_stem(f) : f \in hbs} |->
                            dir[CHOOSE f \in hbs : file_stem(f) = n]]]

\* CodeGenerator::new (generator.rs:13-32): the registry of named templates
CodeGenerator_new(tdir) ==
    IF tdir = NoTemplates THEN [ok |-> TRUE, value |-> <<>>]
    ELSE load_templates_from_directory(tdir[1])

\* Handlebars::render(name, data): the text of the registered template
\* filled with the data, Err when no template is registered under the name
render(handlebars, template_name, data) ==
    IF template_name \in DOMAIN handlebars
    THEN [ok |-> TRUE,
          value |-> [template |-> handlebars[template_name].id, data |-> data]]
    ELSE [ok |-> FALSE,
          error |-> [text |-> "Template not found", name |-> template_name]]

\* Handlebars::render_template(template_string, data)
render_template(template_string, data) ==
    [template |-> template_string, data |-> data]

\* fs::create_dir_all(dir) and fs::write(path, content) under the output root
create_dir_all(tree, dir) ==
    [tree EXCEPT !.dirs = @ \cup {SubSeq(dir, 1, k) : k \in 0..Len(dir)}]
write(tree, path, content) ==
    [tree EXCEPT !.files = WriteFile(@, path, content)]

\* Path::parent of a relative path
parent(path) == SubSeq(path, 1, Len(path) - 1)

\* CodeGenerator::generate_rust_file (generator.rs:103-144).  The default
\* template is registered in a clone of the registry that is dropped at the
\* end of the block (lines 124-127); render looks the name up in
\* self.handlebars.
generate_rust_file(handlebars, file_pattern, pattern, tree) ==
    LET template_data ==
            [file_name |-> file_stem(file_pattern.path[Len(file_pattern.path)]),
             structs |-> file_pattern.structs,
             functions |-> file_pattern.functions,
             implementations |-> file_pattern.implementations,
             pattern_name |-> pattern.name,
             original_path |-> file_pattern.path]
        template_name == IF RustFileName \in DOMAIN handlebars
                         THEN RustFileName ELSE DefaultRustFileName
        generated == render(handlebars, template_name, template_data)
    IN  IF ~generated.ok
        THEN [ok |-> FALSE, error |-> generated.error, tree |-> tree]
        ELSE [ok |-> TRUE,
              tree |-> write(create_dir_all(tree, parent(file_pattern.path)),
                             file_pattern.path, generated.value)]

\* CodeGenerator::generate_js_file (generator.rs:168-209), with the same
\* registration in a dropped clone (lines 189-192)
generate_js_file(handlebars, file_pattern, pattern, tree) ==
    LET template_data ==
            [file_name |-> file_stem(file_pattern.path[Len(file_pattern.path)]),
             classes |-> file_pattern.classes,
             functions |-> file_pattern.functions,
             pattern_name |-> pattern.name,
             original_path |-> file_pattern.path,
             extension |-> file_pattern.extension]
        template_name == IF JsFileName \in DOMAIN handlebars
                         THEN JsFileName ELSE DefaultJsFileName
        generated == render(handlebars, template_name, template_data)
    IN  IF ~generated.ok
        THEN [ok |-> FALSE, error |-> generated.error, tree |-> tree]
        ELSE [ok |-> TRUE,
              tree |-> write(create_dir_all(tree, parent(file_pattern.path)),
                             file_pattern.path, generated.value)]

\* The extensions the two generators take (generator.rs:89, 154)
RustExtensions == {<<"r", "s">>}
JsExtensions == {<<"j", "s">>, <<"t", "s">>, <<"j", "s", "x">>, <<"t", "s", "x">>}

RECURSIVE GenerateEach(_, _, _, _, _)
\* The loops of generator.rs:88-92 and 153-157; `?` returns the first error
GenerateEach(handlebars, rust, files, pattern, tree) ==
    IF files = <<>> THEN [ok |-> TRUE, tree |-> tree]
    ELSE IF Head(files).extension
                \notin (IF rust THEN RustExtensions ELSE JsExtensions)
    THEN GenerateEach(handlebars, rust, Tail(files), pattern, tree)
    ELSE LET one == IF rust
                    THEN generate_rust_file(handlebars, Head(files), pattern, tree)
                    ELSE generate_js_file(handlebars, Head(files), pattern, tree)
         IN  IF ~one.ok THEN one
             ELSE GenerateEach(handlebars, rust, Tail(files), pattern, one.tree)

\* generate_cargo_toml (generator.rs:211-227) and generate_package_json
\* (generator.rs:229-245): the rendered manifest
generate_cargo_toml(pattern) ==
    render_template("DEFAULT_CARGO_TEMPLATE",
                    [project_name |-> to_lowercase(replace(pattern.name, " ", "_")),
                     pattern_name |-> pattern.name])
generate_package_json(pattern) ==
    render_template("DEFAULT_PACKAGE_TEMPLATE",
                    [project_name |-> to_lowercase(replace(pattern.name, " ", "-")),
                     pattern_name |-> pattern.name])

\* WriteManifest writing the manifest whether or not one exists
WriteManifest_overwriting(tree, manifest, content) ==
    write(tree, <<manifest>>, content)

\* if !manifest_path.exists() { generate the manifest } (generator.rs:95-98,
\* 160-163)
WriteManifest(tree, manifest, content) ==
    IF <<manifest>> \in DOMAIN tree.files THEN tree
    ELSE write(tree, <<manifest>>, content)

\* CodeGenerator::generate_rust_files (generator.rs:81-101)
generate_rust_files(handlebars, pattern, tree) ==
    LET written == GenerateEach(handlebars, TRUE, pattern.files, pattern, tree)
    IN  IF ~written.ok THEN written
        ELSE [ok |-> TRUE,
              tree |-> WriteManifest(written.tree, CargoToml,
                                     generate_cargo_toml(pattern))]

\* CodeGenerator::generate_js_files (generator.rs:146-166)
generate_js_files(handlebars, pattern, tree) ==
    LET written == GenerateEach(handlebars, FALSE, pattern.files, pattern, tree)
    IN  IF ~written.ok THEN written
        ELSE [ok |-> TRUE,
              tree |-> WriteManifest(written.tree, PackageJson,
                                     generate_package_json(pattern))]

\* CodeGenerator::load_scaff_pattern (generator.rs:68-79): the file is read
\* by its key, whatever name is stored in it
generator_load_scaff_pattern(scaff_name) ==
    LET scaff_file == PatternFileName(scaff_name)
    IN  IF ~(dirExists /\ scaff_file \in DOMAIN fs)
        THEN [ok |-> FALSE, error |-> [text |-> "No such file or directory"]]
        ELSE LET parsed == CodePatternFromJson(fs[scaff_file])
             IN  IF parsed.ok THEN parsed
                 ELSE [ok |-> FALSE, error |-> [text |-> "serde_json::Error"]]

ErrGenerationLanguage(language) ==
    [text |-> "Unsupported language: {}", language |-> language]

\* GenerateForLanguage sending every other language to the JavaScript branch
GenerateForLanguage_js_by_default(handlebars, pattern, tree) ==
    IF pattern.language = "Rust"
    THEN generate_rust_files(handlebars, pattern, tree)
    ELSE generate_js_files(handlebars, pattern, tree)

\* match pattern.language.as_str() { .. } (generator.rs:52-59)
GenerateForLanguage(handlebars, pattern, tree) ==
    CASE pattern.language = "Rust" ->
             generate_rust_files(handlebars, pattern, tree)
      [] pattern.language = "JavaScript/TypeScript" ->
             generate_js_files(handlebars, pattern, tree)
      [] OTHER ->
             [ok |-> FALSE, error |-> ErrGenerationLanguage(pattern.language),
              tree |-> tree]

\* The generate command (cli.rs:272-297): CodeGenerator::new, then
\* CodeGenerator::generate_from_scaff (generator.rs:34-66) into the output
\* directory.  `pattern` notes, for the properties, the snapshot loaded.
generate_from_scaff(scaff_name) ==
    LET generator == CodeGenerator_new(templates)
        pattern == generator_load_scaff_pattern(scaff_name)
        output_path == IF <<>> \in out.dirs THEN out ELSE create_dir_all(out, <<>>)
        call == [op |-> "generate_from_scaff", name |-> scaff_name]
    IN  /\ UNCHANGED <<dirExists, fs, config, saved, templates, walk, scan, race>>
        /\ IF ~generator.ok
           THEN /\ last' = call @@ [result |-> "Err", error |-> generator.error,
                                    pattern |-> <<>>]
                /\ out' = out
           ELSE IF ~pattern.ok
           THEN /\ last' = call @@ [result |-> "Err", error |-> pattern.error,
                                    pattern |-> <<>>]
                /\ out' = out
           ELSE LET generated ==
                        GenerateForLanguage(generator.value, pattern.value,
                                            output_path)
                IN  /\ out' = generated.tree
                    /\ last' = call @@
                           [result |-> IF generated.ok THEN "Ok" ELSE "Err",
                            error |-> IF generated.ok THEN [text |-> ""]
                                      ELSE generated.error,
                            pattern |-> <<pattern.value>>]

\* A manifest the user wrote
UserManifest == [template |-> "user manifest", data |-> <<>>]

\* The output directory before the first generation: absent, empty, or
\* holding manifests already
OutputTrees ==
    {NoOutput,
     [dirs |-> {<<>>}, files |-> <<>>],
     [dirs |-> {<<>>},
      files |-> [f \in {<<CargoToml>>, <<PackageJson>>} |-> UserManifest]]}

InitGenerate ==
    /\ StoreInit
    /\ scaff = NoScaff
    /\ current = <<>>
    /\ result = NoResult
    /\ edit = NoEdit
    /\ edits = 0
    /\ templates \in TemplateDirs
    /\ out \in OutputTrees
    /\ walk = NoWalk
    /\ scan = NoScan
    /\ cmd = NoCmd
    /\ race = NoRace

NextGenerate ==
    \/ \E p \in GeneratePatterns :
           save_pattern(p) /\ UNCHANGED <<compareVars, genVars>>
    \/ \E n \in ScaffNames :
           generate_from_scaff(n) /\ UNCHANGED <<compareVars, cmd>>
    \/ \E n \in ScaffNames, o \in ReadDirOrders(fs) :
           validate_against_scaff(n, o, GenFilesRust) /\ UNCHANGED genVars

SpecGenerate == InitGenerate /\ [][NextGenerate]_vars

-----------------------------------------------------------------------------
(* The extractor (scanner.rs:191-453).  A node of a syntax tree has a kind, *)
(* the text of its byte range, its children, and the fields of its grammar *)
(* rule: field name -> index of the child.  A node of the tree is          *)
(* addressed by the child indices leading to it from the root.  The        *)
(* recursion of extract_from_node is a stack of nodes still to visit.      *)

Node(kind, text, fields, children) ==
    [kind |-> kind, text |-> text, fields |-> fields, children |-> children]
Leaf(kind, text) == Node(kind, text, <<>>, <<>>)
\* A node whose grammar rule has the field "name" on its first child
Named(kind, name, body) ==
    Node(kind, "", [name |-> 1], <<Leaf("identifier", name)>> \o body)

RECURSIVE NodeAt(_, _)
NodeAt(root, path) ==
    IF path = <<>> THEN root ELSE NodeAt(root.children[Head(path)], Tail(path))

\* node.children(&mut node.walk()): the children, first to last
ChildPaths(root, path) ==
    [i \in 1..Len(NodeAt(root, path).children) |-> Append(path, i)]

\* FieldText taking the empty text for the name of a node without the field
FieldText_empty_name(node, field) ==
    IF field \in DOMAIN node.fields
    THEN <<node.children[node.fields[field]].text>>
    ELSE <<"">>

\* node.child_by_field_name(field) and the text of that child: None when
\* the node has no such field
FieldText(node, field) ==
    IF field \in DOMAIN node.fields
    THEN <<node.children[node.fields[field]].text>>
    ELSE <<>>

\* The arms of the match that push the text of one field (scanner.rs:235-360,
\* 377-391): kind, language, list pushed to, field
NameRules ==
    {<<"struct_item", "rust", "structs", "name">>,
     <<"fn_item", "rust", "functions", "name">>,
     <<"impl_item", "rust", "implementations", "type">>,
     <<"class_declaration", "javascript", "classes", "name">>,
     <<"function_declaration", "javascript", "functions", "name">>,
     <<"method_definition", "javascript", "functions", "name">>,
     <<"class_declaration", "typescript", "classes", "name">>,
     <<"function_declaration", "typescript", "functions", "name">>,
     <<"method_definition", "typescript", "functions", "name">>,
     <<"class_definition", "python", "classes", "name">>,
     <<"function_definition", "python", "functions", "name">>,
     <<"class_declaration", "java", "classes", "name">>,
     <<"method_declaration", "java", "functions", "name">>,
     <<"function_declaration", "go", "functions", "name">>,
     <<"method_declaration", "go", "functions", "name">>}

\* format!("interface {}", name_str) (scanner.rs:314, 358)
InterfaceName(name) ==
    CASE name = "I" -> "interface I"
      [] name = "J" -> "interface J"

\* str::trim on a sequence of characters
RECURSIVE trim(_)
trim(t) ==
    IF t # <<>> /\ Head(t) = " " THEN trim(Tail(t))
    ELSE IF t # <<>> /\ t[Len(t)] = " " THEN trim(SubSeq(t, 1, Len(t) - 1))
    ELSE t

\* if !list.contains(&name) { list.push(name) }
PushIfAbsent(list, name) ==
    IF \E i \in 1..Len(list) : list[i] = name THEN list ELSE Append(list, name)

RECURSIVE PushTypeSpecs_first_only(_, _)
\* PushTypeSpecs recording one entry for the whole block
PushTypeSpecs_first_only(list, children) ==
    IF children = <<>> THEN list
    ELSE IF Head(children).kind = "type_spec"
              /\ FieldText(Head(children), "name") # <<>>
    THEN Append(list, FieldText(Head(children), "name")[1])
    ELSE PushTypeSpecs_first_only(list, Tail(children))

RECURSIVE PushTypeSpecs(_, _)
\* The loop of scanner.rs:365-375 over the children of a type_declaration
PushTypeSpecs(list, children) ==
    IF children = <<>> THEN list
    ELSE LET child == Head(children)
             name == FieldText(child, "name")
         IN  PushTypeSpecs(IF child.kind = "type_spec" /\ name # <<>>
                           THEN Append(list, name[1]) ELSE list,
                           Tail(children))

RECURSIVE PushSelectorTexts(_, _)
\* The inner loop of scanner.rs:412-421 over the children of a selectors node
PushSelectorTexts(list, selector_children) ==
    IF selector_children = <<>> THEN list
    ELSE LET selector_text == Head(selector_children).text
         IN  PushSelectorTexts(IF trim(selector_text) # <<>>
                               THEN PushIfAbsent(list, trim(selector_text))
                               ELSE list,
                               Tail(selector_children))

RECURSIVE PushSelectors(_, _)
\* The outer loop of scanner.rs:410-423 over the children of a rule_set
PushSelectors(list, children) ==
    IF children = <<>> THEN list
    ELSE PushSelectors(IF Head(children).kind = "selectors"
                       THEN PushSelectorTexts(list, Head(children).children)
                       ELSE list,
                       Tail(children))

\* match (node.kind(), language) { .. } of extract_from_node
\* (scanner.rs:233-439): the four lists after the arm for this node
MatchNode(lists, node, language) ==
    LET rules == {r \in NameRules : r[1] = node.kind /\ r[2] = language}
    IN  IF rules # {}
        THEN LET r == CHOOSE r \in rules : TRUE
                 name == FieldText(node, r[4])
             IN  IF name = <<>> THEN lists
                 ELSE [lists EXCEPT ![r[3]] = Append(@, name[1])]
        ELSE IF node.kind = "interface_declaration"
                  /\ language \in {"typescript", "java"}
        THEN LET name == FieldText(node, "name")
             IN  IF name = <<>> THEN lists
                 ELSE [lists EXCEPT !.classes = Append(@, InterfaceName(name[1]))]
        ELSE IF node.kind = "type_declaration" /\ language = "go"
        THEN [lists EXCEPT !.structs = PushTypeSpecs(@, node.children)]
        ELSE IF node.kind = "element" /\ language = "html"
        THEN IF "start_tag" \in DOMAIN node.fields
             THEN LET name == FieldText(node.children[node.fields.start_tag],
                                        "name")
                  IN  IF name = <<>> THEN lists
                      ELSE [lists EXCEPT !.classes = PushIfAbsent(@, name[1])]
             ELSE lists
        ELSE IF node.kind = "rule_set" /\ language = "css"
        THEN [lists EXCEPT !.classes = PushSelectors(@, node.children)]
        ELSE IF node.kind = "pair" /\ language = "json"
        THEN LET key == FieldText(node, "key")
             IN  IF key = <<>> THEN lists
                 ELSE [lists EXCEPT !.structs = PushIfAbsent(@, key[1])]
        ELSE lists

\* The trees the parser returns, of the shapes of the grammars: keyword and
\* punctuation tokens are children too, the HTML grammar names no field, a
\* CSS selector list holds its commas, a Rust function is a function_item.

\* class K { m() {} }  function f() { function g() {} }  function f() {}
JsTree ==
    Node("program", "", <<>>,
         <<Named("class_declaration", "K",
                 <<Node("class_body", "", <<>>,
                        <<Named("method_definition", "m", <<>>)>>)>>),
           Named("function_declaration", "f",
                 <<Node("statement_block", "", <<>>,
                        <<Named("function_declaration", "g", <<>>)>>)>>),
           Named("function_declaration", "f", <<>>)>>)

\* interface I { m(); }  class K { m() {} }, in TypeScript and in Java
TsTree ==
    Node("program", "", <<>>,
         <<Named("interface_declaration", "I",
                 <<Named("method_signature", "m", <<>>)>>),
           Named("class_declaration", "K",
                 <<Node("class_body", "", <<>>,
                        <<Named("method_definition", "m", <<>>)>>)>>)>>)
JavaTree ==
    Node("program", "", <<>>,
         <<Named("interface_declaration", "J",
                 <<Named("method_declaration", "m", <<>>)>>),
           Named("class_declaration", "K",
                 <<Node("class_body", "", <<>>,
                        <<Named("method_declaration", "m", <<>>),
                          Named("class_declaration", "L", <<>>)>>)>>)>>)

\* class K: def m(self): ..   def f(): def g(): ..
PyTree ==
    Node("module", "", <<>>,
         <<Named("class_definition", "K",
                 <<Node("block", "", <<>>,
                        <<Named("function_definition", "m", <<>>)>>)>>),
           Named("function_definition", "f",
                 <<Node("block", "", <<>>,
                        <<Named("function_definition", "g", <<>>)>>)>>)>>)

\* struct S;  impl S { fn new() {} }  fn main() {}
RustTree ==
    Node("source_file", "", <<>>,
         <<Named("struct_item", "S", <<>>),
           Node("impl_item", "", [type |-> 2],
                <<Leaf("impl", "impl"), Leaf("type_identifier", "S"),
                  Node("declaration_list", "", <<>>,
                       <<Named("function_item", "new", <<>>)>>)>>),
           Named("function_item", "main", <<>>)>>)

\* type ( X int; Y int )  func F() { type Z int }  func (r X) M() {}
GoGroupedTree ==
    Node("source_file", "", <<>>,
         <<Node("type_declaration", "", <<>>,
                <<Leaf("type", "type"), Leaf("(", "("),
                  Named("type_spec", "X", <<Leaf("type_identifier", "int")>>),
                  Named("type_spec", "Y", <<Leaf("type_identifier", "int")>>),
                  Leaf(")", ")")>>),
           Named("function_declaration", "F",
                 <<Node("block", "", <<>>,
                        <<Node("type_declaration", "", <<>>,
                               <<Leaf("type", "type"),
                                 Named("type_spec", "Z", <<>>)>>)>>)>>),
           Named("method_declaration", "M", <<>>)>>)

\* type ( X [len(func() []int { type Z int; return nil }())]int; Y int )
GoNestedTree ==
    Node("source_file", "", <<>>,
         <<Node("type_declaration", "", <<>>,
                <<Leaf("type", "type"), Leaf("(", "("),
                  Named("type_spec", "X",
                        <<Node("array_type", "", <<>>,
                               <<Node("func_literal", "", <<>>,
                                      <<Node("block", "", <<>>,
                                             <<Node("type_declaration", "", <<>>,
                                                    <<Leaf("type", "type"),
                                                      Named("type_spec", "Z",
                                                            <<>>)>>)>>)>>)>>)>>),
                  Named("type_spec", "Y", <<Leaf("type_identifier", "int")>>),
                  Leaf(")", ")")>>)>>)

\* <p></p><p></p><p></p><div><p></p></div>: an element has its start tag and
\* the start tag its tag_name as plain children, under no field name
\* (test_scan_html_files, scanner.rs:698-733, finds no class in six elements)
HtmlElement(tag, inner) ==
    Node("element", "", <<>>,
         <<Node("start_tag", "", <<>>,
                <<Leaf("<", "<"), Leaf("tag_name", tag), Leaf(">", ">")>>)>>
         \o inner \o <<Node("end_tag", "", <<>>, <<Leaf("tag_name", tag)>>)>>)
HtmlTree ==
    Node("document", "", <<>>,
         <<HtmlElement("p", <<>>), HtmlElement("p", <<>>), HtmlElement("p", <<>>),
           HtmlElement("div", <<HtmlElement("p", <<>>)>>)>>)

\* a, .b { }  a { }
CssTree ==
    Node("stylesheet", <<>>, <<>>,
         <<Node("rule_set", <<>>, <<>>,
                <<Node("selectors", <<>>, <<>>,
                       <<Leaf("tag_name", <<"a">>), Leaf(",", <<",">>),
                         Leaf("class_selector", <<".", "b">>)>>),
                  Leaf("block", <<"{", " ", "}">>)>>),
           Node("rule_set", <<>>, <<>>,
                <<Node("selectors", <<>>, <<>>, <<Leaf("tag_name", <<"a">>)>>),
                  Leaf("block", <<"{", " ", "}">>)>>)>>)

\* {"a": 1, "b": {"a": 2}, "a": 3}
JsonPair(key, value) ==
    Node("pair", "", [key |-> 1, value |-> 3],
         <<Leaf("string", key), Leaf(":", ":"), value>>)
JsonTree ==
    Node("document", "", <<>>,
         <<Node("object", "", <<>>,
                <<JsonPair("\"a\"", Leaf("number", "1")),
                  JsonPair("\"b\"",
                           Node("object", "", <<>>,
                                <<JsonPair("\"a\"", Leaf("number", "2"))>>)),
                  JsonPair("\"a\"", Leaf("number", "3"))>>)>>)

\* class { m() {} }  const o = {a: () => { function h() {} }}: a class
\* declaration the parser recovered without a name, and a pair, the kind
\* that only the JSON arm names
JsLooseTree ==
    Node("program", "", <<>>,
         <<Node("class_declaration", "", [body |-> 2],
                <<Leaf("class", "class"),
                  Node("class_body", "", <<>>,
                       <<Named("method_definition", "m", <<>>)>>)>>),
           Node("lexical_declaration", "", <<>>,
                <<Named("variable_declarator", "o",
                        <<Node("object", "", <<>>,
                               <<JsonPair("a",
                                     Node("arrow_function", "", <<>>,
                                          <<Named("function_declaration", "h",
                                                  <<>>)>>))>>)>>)>>)>>)

\* An empty file, and a file of comments only
EmptyTree == Node("module", "", <<>>, <<>>)
CommentTree ==
    Node("source_file", "", <<>>,
         <<Leaf("line_comment", "// a"), Leaf("line_comment", "// b")>>)

\* The files a scan parses: the language id and the tree of the file
ExtractInputs ==
    {[language |-> "javascript", root |-> JsTree],
     [language |-> "typescript", root |-> JsTree],
     [language |-> "javascript", root |-> JsLooseTree],
     [language |-> "python", root |-> EmptyTree],
     [language |-> "rust", root |-> CommentTree],
     [language |-> "typescript", root |-> TsTree],
     [language |-> "java", root |-> JavaTree],
     [language |-> "python", root |-> PyTree],
     [language |-> "rust", root |-> RustTree],
     [language |-> "go", root |-> GoGroupedTree],
     [language |-> "go", root |-> GoNestedTree],
     [language |-> "html", root |-> HtmlTree],
     [language |-> "css", root |-> CssTree],
     [language |-> "json", root |-> JsonTree]}

NoLists == [classes |-> <<>>, functions |-> <<>>, structs |-> <<>>,
            implementations |-> <<>>]

\* extract_file_pattern up to its loop (scanner.rs:191-198): the lists are
\* empty and the children of the root are to be visited
extract_file_pattern_begin ==
    /\ walk.phase = "parsed"
    /\ walk' = [walk EXCEPT !.phase = "walking",
                            !.todo = ChildPaths(walk.root, <<>>)]

\* One call of extract_from_node (scanner.rs:224-453): the match on the
\* node, then the calls for its children before anything else
extract_from_node ==
    /\ walk.phase = "walking"
    /\ walk.todo # <<>>
    /\ LET path == Head(walk.todo)
           node == NodeAt(walk.root, path)
       IN  walk' = [walk EXCEPT
                       !.lists = MatchNode(@, node, walk.language),
                       !.visited = Append(@, path),
                       !.todo = ChildPaths(walk.root, path) \o Tail(@)]

\* The FilePattern extract_file_pattern returns (scanner.rs:210-221)
extract_file_pattern_end ==
    /\ walk.phase = "walking"
    /\ walk.todo = <<>>
    /\ walk' = [walk EXCEPT !.phase = "done"]

InitExtract ==
    /\ StoreInit
    /\ scaff = NoScaff
    /\ current = <<>>
    /\ result = NoResult
    /\ edit = NoEdit
    /\ edits = 0
    /\ templates = NoTemplates
    /\ out = NoOutput
    /\ walk \in {[phase |-> "parsed", language |-> input.language,
                  root |-> input.root, todo |-> <<>>, lists |-> NoLists,
                  visited |-> <<>>] : input \in ExtractInputs}
    /\ scan = NoScan
    /\ cmd = NoCmd
    /\ race = NoRace

NextExtract ==
    \/ extract_file_pattern_begin
           /\ UNCHANGED <<storeVars, compareVars, templates, out, scan, cmd, race>>
    \/ extract_from_node /\ UNCHANGED <<storeVars, compareVars, templates, out, scan, cmd, race>>
    \/ extract_file_pattern_end
           /\ UNCHANGED <<storeVars, compareVars, templates, out, scan, cmd, race>>

SpecExtract == InitExtract /\ [][NextExtract]_vars

-----------------------------------------------------------------------------
(* The scan of a directory (scanner.rs) *)

\* SUPPORTED_LANGUAGES (scanner.rs:16-62)
SUPPORTED_LANGUAGES ==
    <<[name |-> "rust", display_name |-> "Rust",
       extensions |-> <<<<"r", "s">>>>],
      [name |-> "javascript", display_name |-> "JavaScript",
       extensions |-> <<<<"j", "s">>, <<"j", "s", "x">>>>],
      [name |-> "typescript", display_name |-> "TypeScript",
       extensions |-> <<<<"t", "s">>, <<"t", "s", "x">>>>],
      [name |-> "python", display_name |-> "Python",
       extensions |-> <<<<"p", "y">>, <<"p", "y", "i">>>>],
      [name |-> "java", display_name |-> "Java",
       extensions |-> <<<<"j", "a", "v", "a">>>>],
      [name |-> "go", display_name |-> "Go",
       extensions |-> <<<<"g", "o">>>>],
      [name |-> "json", display_name |-> "JSON",
       extensions |-> <<<<"j", "s", "o", "n">>>>],
      [name |-> "html", display_name |-> "HTML",
       extensions |-> <<<<"h", "t", "m", "l">>, <<"h", "t", "m">>>>],
      [name |-> "css", display_name |-> "CSS",
       extensions |-> <<<<"c", "s", "s">>>>]>>

\* The languages the match of scan_language_files_in_dir has a grammar for
\* (scanner.rs:82-96)
GrammarLanguages ==
    {"rust", "javascript", "typescript", "python", "java", "go", "json",
     "html", "css"}

\* SUPPORTED_LANGUAGES.iter().find(|config| config.name == language)
\*     .map(|config| config.extensions.contains(&ext_str.as_str()))
\*     .unwrap_or(false)
should_parse(language, ext_str) ==
    LET found == SelectSeq(SUPPORTED_LANGUAGES, LAMBDA language_config :
                               language_config.name = language)
    IN  IF found = <<>> THEN FALSE
        ELSE \E i \in DOMAIN found[1].extensions :
                 found[1].extensions[i] = ext_str

\* The entries of a directory tree.  A file has a name and a content that
\* fs::read_to_string returns or not and that the parser returns a tree for
\* or not; a directory is readable or not; of an entry read_dir may return
\* an error only.
FileEntry(name, read, tree) ==
    [kind |-> "file", name |-> name, read |-> read, tree |-> tree]
DirEntry(name, read, entries) ==
    [kind |-> "dir", name |-> name, read |-> read, entries |-> entries]
ErrEntry == [kind |-> "error"]

RECURSIVE EntryAt(_, _)
EntryAt(dir, path) ==
    IF path = <<>> THEN dir ELSE EntryAt(dir.entries[Head(path)], Tail(path))

RECURSIVE EntryPath(_, _)
\* entry.path(): the names from the scanned directory down to the entry
EntryPath(dir, path) ==
    IF path = <<>> THEN <<dir.name>>
    ELSE <<dir.name>> \o EntryPath(dir.entries[Head(path)], Tail(path))

RECURSIVE ExtractNodes(_, _, _, _)
ExtractNodes(lists, root, paths, language) ==
    IF paths = <<>> THEN lists
    ELSE ExtractNodes(MatchNode(lists, NodeAt(root, Head(paths)), language),
                      root, Tail(paths) , language)

RECURSIVE VisitOrder(_, _)
\* The nodes extract_from_node is called with, in the order of the calls
VisitOrder(root, todo) ==
    IF todo = <<>> THEN <<>>
    ELSE <<Head(todo)>>
             \o VisitOrder(root, ChildPaths(root, Head(todo)) \o Tail(todo))

\* extract_file_pattern as a whole (scanner.rs:191-222)
extract_file_pattern(root, file_path, language) ==
    LET lists == ExtractNodes(NoLists, root,
                              VisitOrder(root, ChildPaths(root, <<>>)),
                              language)
    IN  GenFile(file_path, lists.classes, lists.functions, lists.structs,
                lists.implementations)

\* One turn of the loop of scan_dir_recursive aborting the scan at a file
\* it cannot read
ScanEntry_aborting(sc, path) ==
    LET entry == EntryAt(sc.dir, path)
    IN  IF entry.kind = "dir"
        THEN [sc EXCEPT !.todo = (IF entry.read
                                  THEN [i \in 1..Len(entry.entries) |->
                                           Append(path, i)]
                                  ELSE <<>>) \o Tail(@)]
        ELSE IF entry.kind = "file" /\ extension(entry.name) # <<>>
                  /\ should_parse(sc.language, extension(entry.name)[1])
        THEN IF ~entry.read THEN [sc EXCEPT !.todo = <<>>]
             ELSE IF entry.tree = <<>> THEN [sc EXCEPT !.todo = Tail(@)]
             ELSE [sc EXCEPT
                      !.todo = Tail(@),
                      !.file_patterns =
                          Append(@, extract_file_pattern(
                                        entry.tree[1], EntryPath(sc.dir, path),
                                        sc.language))]
        ELSE [sc EXCEPT !.todo = Tail(@)]

\* One turn of the loop of scan_dir_recursive (scanner.rs:135-184), or for
\* a directory the call of scan_dir_recursive up to its loop
\* (scanner.rs:126-133, 144-146): an unreadable directory has no entries, a
\* file of another extension, unreadable or without a tree is passed over
ScanEntry(sc, path) ==
    LET entry == EntryAt(sc.dir, path)
    IN  IF entry.kind = "dir"
        THEN [sc EXCEPT !.todo = (IF entry.read
                                  THEN [i \in 1..Len(entry.entries) |->
                                           Append(path, i)]
                                  ELSE <<>>) \o Tail(@)]
        ELSE IF entry.kind = "file" /\ extension(entry.name) # <<>>
                  /\ should_parse(sc.language, extension(entry.name)[1])
                  /\ entry.read /\ entry.tree # <<>>
        THEN [sc EXCEPT
                 !.todo = Tail(@),
                 !.file_patterns =
                     Append(@, extract_file_pattern(
                                   entry.tree[1], EntryPath(sc.dir, path),
                                   sc.language))]
        ELSE [sc EXCEPT !.todo = Tail(@)]

\* scan_language_files_in_dir (scanner.rs:76-107): no grammar, no scan; the
\* scan starts at the path given, a directory or not (scanner.rs:126)
scan_language_files_in_dir ==
    /\ scan.phase = "called"
    /\ scan' = IF scan.language \notin GrammarLanguages
               THEN [scan EXCEPT !.phase = "returned"]
               ELSE IF scan.dir.kind # "dir"
               THEN [scan EXCEPT !.phase = "returned"]
               ELSE [scan EXCEPT !.phase = "scanning", !.todo = <<<<>>>>]

scan_dir_recursive ==
    /\ scan.phase = "scanning"
    /\ scan.todo # <<>>
    /\ scan' = ScanEntry(scan, Head(scan.todo))

\* The return of the outermost scan_dir_recursive (scanner.rs:188)
scan_return ==
    /\ scan.phase = "scanning"
    /\ scan.todo = <<>>
    /\ scan' = [scan EXCEPT !.phase = "returned"]

\* The names of the entries
Dir_a == <<"a">>
Dir_b == <<"b">>
Dir_closed == <<"c", "l", "o", "s", "e", "d">>
Dir_empty == <<"e", "m", "p", "t", "y">>
Dir_locked == <<"l", "o", "c", "k", "e", "d">>
Dir_project == <<"p", "r", "o", "j", "e", "c", "t">>
Dir_src == <<"s", "r", "c">>
Dir_web == <<"w", "e", "b">>
File_README == <<"R", "E", "A", "D", "M", "E">>
File_a_rs == <<"a", ".", "r", "s">>
File_b_rs == <<"b", ".", "r", "s">>
File_c_rs == <<"c", ".", "r", "s">>
File_d_js == <<"d", ".", "j", "s">>
File_e_rs == <<"e", ".", "r", "s">>
File_f_rs == <<"f", ".", "r", "s">>
File_g_RS == <<"g", ".", "R", "S">>
File_h_tsx == <<"h", ".", "t", "s", "x">>
File_main_rs == <<"m", "a", "i", "n", ".", "r", "s">>
File_x_js == <<"x", ".", "j", "s">>
File_x_ts == <<"x", ".", "t", "s">>
File_y_js == <<"y", ".", "j", "s">>
File_z_jsx == <<"z", ".", "j", "s", "x">>

\* The directories scanned
SourceDir ==
    DirEntry(Dir_project, TRUE,
             <<FileEntry(File_a_rs, TRUE, <<RustTree>>),
               DirEntry(Dir_src, TRUE,
                        <<FileEntry(File_b_rs, FALSE, <<>>),
                          FileEntry(File_c_rs, TRUE, <<>>),
                          FileEntry(File_d_js, TRUE, <<JsTree>>),
                          FileEntry(File_e_rs, TRUE, <<CommentTree>>)>>),
               FileEntry(File_README, TRUE, <<>>),
               ErrEntry,
               DirEntry(Dir_locked, FALSE,
                        <<FileEntry(File_f_rs, TRUE, <<RustTree>>)>>),
               FileEntry(File_g_RS, TRUE, <<RustTree>>),
               FileEntry(File_h_tsx, TRUE, <<TsTree>>)>>)
DeepDir ==
    DirEntry(Dir_web, TRUE,
             <<DirEntry(Dir_a, TRUE,
                        <<DirEntry(Dir_b, TRUE,
                                   <<FileEntry(File_x_ts, TRUE,
                                               <<TsTree>>),
                                     FileEntry(File_x_js, FALSE, <<>>)>>),
                          FileEntry(File_z_jsx, TRUE, <<JsLooseTree>>)>>),
               FileEntry(File_y_js, TRUE, <<JsTree>>)>>)
ScanDirs ==
    {SourceDir, DeepDir,
     DirEntry(Dir_empty, TRUE, <<>>),
     DirEntry(Dir_closed, FALSE, <<FileEntry(File_a_rs, TRUE, <<RustTree>>)>>),
     FileEntry(File_main_rs, TRUE, <<RustTree>>)}
ScanLanguages == {"rust", "javascript", "typescript", "cobol"}

InitScan ==
    /\ StoreInit
    /\ scaff = NoScaff
    /\ current = <<>>
    /\ result = NoResult
    /\ edit = NoEdit
    /\ edits = 0
    /\ templates = NoTemplates
    /\ out = NoOutput
    /\ walk = NoWalk
    /\ scan \in {[phase |-> "called", language |-> language, dir |-> dir,
                  todo |-> <<>>, file_patterns |-> <<>>] :
                     language \in ScanLanguages, dir \in ScanDirs}
    /\ cmd = NoCmd
    /\ race = NoRace

NextScan ==
    \/ scan_language_files_in_dir
           /\ UNCHANGED <<storeVars, compareVars, templates, out, walk, cmd, race>>
    \/ scan_dir_recursive
           /\ UNCHANGED <<storeVars, compareVars, templates, out, walk, cmd, race>>
    \/ scan_return /\ UNCHANGED <<storeVars, compareVars, templates, out, walk, cmd, race>>

SpecScan == InitScan /\ [][NextScan]_vars

-----------------------------------------------------------------------------
(* The commands (cli.rs) *)

MaxRuns == 3    \* runs of the program in one directory

ErrNoScaff ==
    [text |-> "No scaff specified and no default scaff set. Use 'scaff default set <scaff-name>' to set a default, or specify a scaff name explicitly."]
ErrLoadConfig == [text |-> "Failed to load config: {}"]

\* resolve_scaff_name preferring the default of the config to the name given
resolve_scaff_name_default_first(given) ==
    LET loaded == ScaffConfig_load(dirExists, fs)
    IN  IF loaded.ok /\ loaded.value.default_scaff # <<>>
        THEN [ok |-> TRUE, value |-> loaded.value.default_scaff[1]]
        ELSE IF given # <<>> THEN [ok |-> TRUE, value |-> given[1]]
        ELSE [ok |-> FALSE, error |-> ErrNoScaff]

\* resolve_scaff_name (cli.rs:62-76)
resolve_scaff_name(given) ==
    IF given # <<>> THEN [ok |-> TRUE, value |-> given[1]]
    ELSE LET loaded == ScaffConfig_load(dirExists, fs)
         IN  IF ~loaded.ok THEN [ok |-> FALSE, error |-> ErrLoadConfig]
             ELSE IF loaded.value.default_scaff # <<>>
             THEN [ok |-> TRUE, value |-> loaded.value.default_scaff[1]]
             ELSE [ok |-> FALSE, error |-> ErrNoScaff]

\* The match of the save command (cli.rs:210-232): the language given, the
\* language scanned for and the language the Snapshot is labelled with
SaveLanguages ==
    [javascript |-> "JavaScript", typescript |-> "TypeScript",
     python |-> "Python", java |-> "Java", go |-> "Go", rust |-> "Rust",
     json |-> "JSON", html |-> "HTML", css |-> "CSS"]

\* The match of scan_current_codebase (validator.rs:73-86): the languages
\* scanned for a label
ScannedLanguages ==
    [l \in ValidationLanguages |->
        CASE l = "JavaScript/TypeScript" -> <<"javascript", "typescript">>
          [] l = "JavaScript" -> <<"javascript">>
          [] l = "TypeScript" -> <<"typescript">>
          [] l = "Python" -> <<"python">>
          [] l = "Java" -> <<"java">>
          [] l = "Go" -> <<"go">>
          [] l = "Rust" -> <<"rust">>
          [] l = "JSON" -> <<"json">>
          [] l = "HTML" -> <<"html">>
          [] l = "CSS" -> <<"css">>]

Scaffs == <<"s", "c", "a", "f", "f", "s">>
File_lib == <<"l", "i", "b">>

\* What a scan of the working directory finds for each language, the store
\* directory apart: a file for every language
ProjectFiles ==
    [l \in DOMAIN SaveLanguages |->
        CASE l = "rust" -> <<GenFile(<<Src, MainRs>>, <<>>, <<>>, <<"S">>, <<"S">>)>>
          [] l = "javascript" -> <<GenFile(<<Src, IndexJs>>, <<"K">>, <<"f", "f">>,
                                           <<>>, <<>>)>>
          [] l = "typescript" -> <<GenFile(<<Src, Ui, AppTsx>>, <<"App">>,
                                           <<"render">>, <<>>, <<>>)>>
          [] l = "json" -> <<GenFile(<<PackageJson>>, <<>>, <<>>, <<"name">>, <<>>)>>
          [] OTHER -> <<GenFile(<<Src, File_lib \o <<".">> \o
                                        SUPPORTED_LANGUAGES[
                                            CHOOSE i \in DOMAIN SUPPORTED_LANGUAGES :
                                                SUPPORTED_LANGUAGES[i].name = l
                                        ].extensions[1]>>,
                                <<"K">>, <<"f">>, <<>>, <<>>)>>]

RECURSIVE KeySet(_)
\* The keys of the pairs of a JSON document
KeySet(v) ==
    IF v.json = "object"
    THEN DOMAIN v.members \cup UNION {KeySet(v.members[k]) : k \in DOMAIN v.members}
    ELSE IF v.json = "array"
    THEN UNION {KeySet(v.items[i]) : i \in DOMAIN v.items}
    ELSE {}

\* The keys in the order serde_json writes them first
KeyOrder ==
    <<"default_scaff", "name", "description", "language", "files", "path",
      "extension", "classes", "functions", "structs", "implementations",
      "created_at">>

\* The FilePattern of a JSON file of the store directory: its keys, each once
\* (scanner.rs:427-436)
StoreFilePattern(fname) ==
    GenFile(<<Scaffs, fname>>, <<>>, <<>>,
            SelectSeq(KeyOrder, LAMBDA k : k \in KeySet(fs[fname])), <<>>)

\* scan_language_files_in_dir(".", language): the store directory is part
\* of the working directory, read_dir returning its entries in `order`
ScanWorkingDir(language, order) ==
    ProjectFiles[language]
        \o (IF language = "json" /\ dirExists
            THEN [i \in DOMAIN SelectSeq(order, LAMBDA f :
                                             extension(f) = <<JsonExt>>) |->
                     StoreFilePattern(SelectSeq(order, LAMBDA f :
                                                    extension(f) = <<JsonExt>>)[i])]
            ELSE <<>>)

RECURSIVE ScanLanguagesIn(_, _)
ScanLanguagesIn(languages, order) ==
    IF languages = <<>> THEN <<>>
    ELSE ScanWorkingDir(Head(languages), order)
             \o ScanLanguagesIn(Tail(languages), order)

RECURSIVE SumItems(_)
SumItems(files) ==
    IF files = <<>> THEN 0 ELSE ItemCount(Head(files)) + SumItems(Tail(files))

\* create_pattern_from_scan (pattern.rs:199-223): the description by its
\* format string and arguments, created_at the time of the call
create_pattern_from_scan(files, name, language, now) ==
    CodePattern(name,
                [text |-> "Pattern with {} files containing {} total items",
                 files |-> Len(files), items |-> SumItems(files)],
                language, files, now)

\* One run of the program begins: its command line is noted
Run(command) ==
    /\ cmd.runs < MaxRuns
    /\ cmd' = command @@ [runs |-> cmd.runs + 1]

Returned(outcome) ==
    /\ last' = outcome
    /\ UNCHANGED <<dirExists, fs, config, saved, compareVars, out>>

\* scaff save <name> --language <language> (cli.rs:207-253)
cli_save(name, language, order, now) ==
    /\ Run([command |-> "save", name |-> name, language |-> language])
    /\ UNCHANGED <<templates, walk, scan, race>>
    /\ IF language \notin DOMAIN SaveLanguages
       THEN Returned([op |-> "cli_save", result |-> "UnsupportedLanguage"])
       ELSE LET files == ScanWorkingDir(language, order)
            IN  IF files = <<>>
                THEN Returned([op |-> "cli_save", result |-> "NoFiles"])
                ELSE /\ save_pattern(create_pattern_from_scan(
                                         files, name, SaveLanguages[language], now))
                     /\ UNCHANGED <<compareVars, out>>

\* scaff generate [scaff] (cli.rs:258-297)
cli_generate(given) ==
    LET resolved == resolve_scaff_name(given)
    IN  /\ Run([command |-> "generate", scaff |-> given])
        /\ IF ~resolved.ok
           THEN /\ Returned([op |-> "resolve_scaff_name", result |-> "Err",
                             error |-> resolved.error])
                /\ UNCHANGED <<templates, walk, scan, race>>
           ELSE generate_from_scaff(resolved.value) /\ UNCHANGED compareVars

\* scaff validate [scaff] (cli.rs:298-322): the directory of the store read
\* in `order` by load_patterns and in `scan_order` by the scan
cli_validate(given, order, scan_order) ==
    LET resolved == resolve_scaff_name(given)
        found == load_scaff_pattern(load_patterns(dirExists, fs, order),
                                    resolved.value)
    IN  /\ Run([command |-> "validate", scaff |-> given])
        /\ UNCHANGED <<templates, out, walk, scan, race>>
        /\ IF ~resolved.ok
           THEN Returned([op |-> "resolve_scaff_name", result |-> "Err",
                          error |-> resolved.error])
           ELSE validate_against_scaff(
                    resolved.value, order,
                    IF found.ok /\ found.value.language \in ValidationLanguages
                    THEN ScanLanguagesIn(ScannedLanguages[found.value.language],
                                         scan_order)
                    ELSE <<>>)

\* scaff default set <scaff> (cli.rs:325-346)
cli_default_set(given, order) ==
    /\ Run([command |-> "default set", scaff |-> <<given>>])
    /\ UNCHANGED <<compareVars, templates, out, walk, scan, race>>
    /\ IF ~ScaffConfig_load(dirExists, fs).ok
       THEN /\ last' = [op |-> "config_load", result |-> "ParseError"]
            /\ UNCHANGED <<dirExists, fs, config, saved>>
       ELSE set_default_scaff(given, order)

\* scaff default clear (cli.rs:360-376)
cli_default_clear ==
    /\ Run([command |-> "default clear"])
    /\ UNCHANGED <<compareVars, templates, out, walk, scan, race>>
    /\ IF ~ScaffConfig_load(dirExists, fs).ok
       THEN /\ last' = [op |-> "config_load", result |-> "ParseError"]
            /\ UNCHANGED <<dirExists, fs, config, saved>>
       ELSE clear_default_scaff

CliNames == {NameApi, NameConfig}
CliLanguages == DOMAIN SaveLanguages \cup {"cobol"}
CliScaffs == {<<>>} \cup {<<n>> : n \in CliNames}

InitCli ==
    /\ StoreInit
    /\ scaff = NoScaff
    /\ current = <<>>
    /\ result = NoResult
    /\ edit = NoEdit
    /\ edits = 0
    /\ templates = NoTemplates
    /\ out = NoOutput
    /\ walk = NoWalk
    /\ scan = NoScan
    /\ cmd = [command |-> "none", runs |-> 0]
    /\ race = NoRace

NextCli ==
    \/ \E n \in CliNames, l \in CliLanguages, o \in ReadDirOrders(fs) :
           cli_save(n, l, o, "t1")
    \/ \E sc \in CliScaffs : cli_generate(sc)
    \/ \E sc \in CliScaffs, o \in ReadDirOrders(fs), so \in ReadDirOrders(fs) :
           cli_validate(sc, o, so)
    \/ \E n \in CliNames, o \in ReadDirOrders(fs) : cli_default_set(n, o)
    \/ cli_default_clear

SpecCli == InitCli /\ [][NextCli]_vars

-----------------------------------------------------------------------------
(* A load and a save of two processes on one store directory (pattern.rs) *)

PageSize == 64   \* characters the file system copies in one piece

\* The field names of CodePattern, FilePattern and ScaffConfig, as text
Key_name == <<"n", "a", "m", "e">>
Key_description == <<"d", "e", "s", "c", "r", "i", "p", "t", "i", "o", "n">>
Key_language == <<"l", "a", "n", "g", "u", "a", "g", "e">>
Key_files == <<"f", "i", "l", "e", "s">>
Key_created_at == <<"c", "r", "e", "a", "t", "e", "d", "_", "a", "t">>
Key_path == <<"p", "a", "t", "h">>
Key_extension == <<"e", "x", "t", "e", "n", "s", "i", "o", "n">>
Key_classes == <<"c", "l", "a", "s", "s", "e", "s">>
Key_functions == <<"f", "u", "n", "c", "t", "i", "o", "n", "s">>
Key_structs == <<"s", "t", "r", "u", "c", "t", "s">>
Key_implementations == <<"i", "m", "p", "l", "e", "m", "e", "n", "t", "a", "t", "i", "o", "n", "s">>
Key_default_scaff == <<"d", "e", "f", "a", "u", "l", "t", "_", "s", "c", "a", "f", "f">>

NewLine == <<"\n">>
Null == <<"n", "u", "l", "l">>
Quote(s) == <<"\"">> \o s \o <<"\"">>
Indent(n) == [i \in 1..(2 * n) |-> " "]
Member(key, text) == Quote(key) \o <<":", " ">> \o text

RECURSIVE PrettyItems(_, _)
\* The items of an array or the members of an object, one on a line
PrettyItems(items, n) ==
    IF items = <<>> THEN <<>>
    ELSE NewLine \o Indent(n) \o Head(items)
         \o (IF Len(items) > 1 THEN <<",">> ELSE <<>>)
         \o PrettyItems(Tail(items), n)

\* serde_json's PrettyFormatter: two spaces for a level, an empty array or
\* object on one line
PrettyBlock(open, close, items, n) ==
    IF items = <<>> THEN <<open, close>>
    ELSE <<open>> \o PrettyItems(items, n + 1) \o NewLine \o Indent(n) \o <<close>>

PrettyStrings(list, n) ==
    PrettyBlock("[", "]", [i \in 1..Len(list) |-> Quote(list[i])], n)

\* #[derive(Serialize)] for FilePattern: the fields in their order
PrettyFilePattern(f, n) ==
    PrettyBlock("{", "}",
        <<Member(Key_path, Quote(f.path)),
          Member(Key_extension, Quote(f.extension)),
          Member(Key_classes, PrettyStrings(f.classes, n + 1)),
          Member(Key_functions, PrettyStrings(f.functions, n + 1)),
          Member(Key_structs, PrettyStrings(f.structs, n + 1)),
          Member(Key_implementations, PrettyStrings(f.implementations, n + 1))>>,
        n)

\* serde_json::to_string_pretty(pattern), pattern: &CodePattern, as text
to_string_pretty(p) ==
    PrettyBlock("{", "}",
        <<Member(Key_name, Quote(p.name)),
          Member(Key_description, Quote(p.description)),
          Member(Key_language, Quote(p.language)),
          Member(Key_files,
                 PrettyBlock("[", "]",
                     [i \in 1..Len(p.files) |-> PrettyFilePattern(p.files[i], 2)],
                     1)),
          Member(Key_created_at, Quote(p.created_at))>>,
        0)

\* serde_json::to_string_pretty(self), self: &ScaffConfig, as text
config_to_string_pretty(c) ==
    PrettyBlock("{", "}",
        <<Member(Key_default_scaff,
                 IF c.default_scaff = <<>> THEN Null
                 ELSE Quote(c.default_scaff[1]))>>,
        0)

\* The snapshots of the two processes: the one in scaffs/api.json before the
\* save, the ones the save is run with (a function renamed, a function
\* added, nothing but the time changed), and one under another name.
RaceDescription == <<"s", "c", "a", "n">>
RaceLanguage == <<"R", "u", "s", "t">>
RacePath == <<"a", ".", "r", "s">>
RaceExtension == <<"r", "s">>
RaceFile(functions) ==
    FilePattern(RacePath, RaceExtension, <<>>, functions, <<>>, <<>>)
RaceFiles == {<<RaceFile(<<<<"f">>>>)>>, <<RaceFile(<<<<"g">>>>)>>,
              <<RaceFile(<<<<"g">>, <<"h">>>>)>>}
RaceTimes == {<<"t", "0">>, <<"t", "1">>, <<"t", "2">>}
RaceOld ==
    CodePattern(NameApi, RaceDescription, RaceLanguage,
                <<RaceFile(<<<<"f">>>>)>>, <<"t", "1">>)
RaceOther ==
    CodePattern(NameMyApi, RaceDescription, RaceLanguage,
                <<RaceFile(<<<<"f">>>>)>>, <<"t", "0">>)
RaceSaves ==
    {CodePattern(NameApi, RaceDescription, RaceLanguage, f, <<"t", "2">>) :
        f \in RaceFiles}

\* The documents a file of the two processes can hold
Documents ==
    {CodePattern(n, RaceDescription, RaceLanguage, f, t) :
        n \in {NameApi, NameMyApi}, f \in RaceFiles, t \in RaceTimes}
DocumentTexts == [p \in Documents |-> to_string_pretty(p)]

\* serde_json::from_str::<CodePattern>(&content): Ok(pattern) for the text of
\* a document, Err for every other text a read of these files can return
\* (the empty text, a text cut short, pieces of two texts that do not fit).
from_str(content) ==
    IF \E p \in Documents : DocumentTexts[p] = content
    THEN [ok |-> TRUE,
          value |-> CHOOSE p \in Documents : DocumentTexts[p] = content]
    ELSE [ok |-> FALSE]

\* The store directory when the two processes start: absent, or with the
\* config file and the snapshot of another name, or with the snapshot the
\* save replaces as well.
RaceStores ==
    LET none == [f \in {} |-> <<>>]
        others == WriteFile(WriteFile(none, ConfigFileName,
                                config_to_string_pretty(ScaffConfig(<<NameApi>>))),
                            PatternFileName(NameMyApi), to_string_pretty(RaceOther))
    IN  {[dir |-> FALSE, disk |-> none],
         [dir |-> TRUE, disk |-> others],
         [dir |-> TRUE,
          disk |-> WriteFile(others, PatternFileName(NameApi),
                             to_string_pretty(RaceOld))]}

Min(a, b) == IF a < b THEN a ELSE b

UNCHANGED_outside_race ==
    UNCHANGED <<storeVars, compareVars, templates, out, walk, scan, cmd>>

\* save_pattern: `if !scaffs_dir.exists()`
save_exists ==
    /\ race.phase = "race" /\ race.save = "start"
    /\ race' = [race EXCEPT !.save = IF race.dir THEN "create" ELSE "create_dir_all"]
    /\ UNCHANGED_outside_race

\* save_pattern: fs::create_dir_all(scaffs_dir)
save_create_dir_all ==
    /\ race.phase = "race" /\ race.save = "create_dir_all"
    /\ race' = [race EXCEPT !.dir = TRUE, !.save = "create"]
    /\ UNCHANGED_outside_race

\* fs::write(&file_path, json_content), first half: File::create opens the
\* file, creating it or cutting it to length zero
save_create ==
    /\ race.phase = "race" /\ race.save = "create"
    /\ race' = [race EXCEPT
                   !.disk = WriteFile(race.disk,
                                      PatternFileName(race.pattern.name), <<>>),
                   !.save = "write_all"]
    /\ UNCHANGED_outside_race

\* fs::write, second half: write_all, the file growing a piece at a time
save_write_all ==
    /\ race.phase = "race" /\ race.save = "write_all"
    /\ LET fname == PatternFileName(race.pattern.name)
           content == to_string_pretty(race.pattern)
           upto == Min(Len(race.disk[fname]) + PageSize, Len(content))
       IN  race' = [race EXCEPT
                       !.disk = WriteFile(race.disk, fname,
                                          SubSeq(content, 1, upto)),
                       !.save = IF upto = Len(content) THEN "done"
                                ELSE "write_all"]
    /\ UNCHANGED_outside_race

\* load_patterns: `if !scaffs_dir.exists() { return Ok(Vec::new()) }`
load_exists ==
    /\ race.phase = "race" /\ race.load = "start"
    /\ race' = IF race.dir
               THEN [race EXCEPT !.load = "read_dir"]
               ELSE [race EXCEPT !.load = "done",
                                 !.returned = [ok |-> TRUE, value |-> <<>>]]
    /\ UNCHANGED_outside_race

\* load_patterns: fs::read_dir(scaffs_dir)?
load_read_dir ==
    /\ race.phase = "race" /\ race.load = "read_dir"
    /\ race' = IF race.dir
               THEN [race EXCEPT !.load = "entries",
                                 !.listed = DOMAIN race.disk]
               ELSE [race EXCEPT !.load = "done",
                                 !.returned = [ok |-> FALSE]]
    /\ UNCHANGED_outside_race

\* load_patterns: the next entry of the directory, in any order; a file
\* created after read_dir may be among the entries or not
load_next_entry(fname) ==
    /\ race.phase = "race" /\ race.load = "entries"
    /\ fname \in DOMAIN race.disk \ race.visited
    /\ race' = IF IsPatternFile(fname)
               THEN [race EXCEPT !.visited = @ \cup {fname},
                                 !.load = "read_to_string",
                                 !.path = fname, !.content = <<>>]
               ELSE [race EXCEPT !.visited = @ \cup {fname}]
    /\ UNCHANGED_outside_race

\* load_patterns: fs::read_to_string(&path), the content arriving a piece
\* at a time until a read returns nothing, then serde_json::from_str and
\* patterns.push(pattern), or the warning
load_read_to_string ==
    /\ race.phase = "race" /\ race.load = "read_to_string"
    /\ LET file == race.disk[race.path]
           from == Len(race.content) + 1
           piece == SubSeq(file, from, Min(from + PageSize - 1, Len(file)))
           parsed == from_str(race.content)
       IN  race' = IF piece # <<>>
                   THEN [race EXCEPT !.content = @ \o piece]
                   ELSE IF parsed.ok
                   THEN [race EXCEPT !.load = "entries",
                                     !.patterns = Append(@, parsed.value)]
                   ELSE [race EXCEPT !.load = "entries"]
    /\ UNCHANGED_outside_race

\* load_patterns: the entries are exhausted, Ok(patterns)
load_return ==
    /\ race.phase = "race" /\ race.load = "entries"
    /\ race.listed \subseteq race.visited
    /\ race' = [race EXCEPT !.load = "done",
                            !.returned = [ok |-> TRUE, value |-> race.patterns]]
    /\ UNCHANGED_outside_race

InitRace ==
    /\ dirExists = FALSE /\ fs = <<>> /\ config = ScaffConfig_new
    /\ last = [op |-> "none", result |-> "Ok"]
    /\ saved = [n \in ScaffNames |-> <<>>]
    /\ scaff = NoScaff /\ current = <<>> /\ result = NoResult
    /\ edit = NoEdit /\ edits = 0
    /\ templates = NoTemplates /\ out = NoOutput /\ walk = NoWalk
    /\ scan = NoScan /\ cmd = NoCmd
    /\ \E store \in RaceStores, pattern \in RaceSaves :
           race = [phase |-> "race", dir |-> store.dir, disk |-> store.disk,
                   before |-> store.disk, pattern |-> pattern,
                   save |-> "start", load |-> "start",
                   listed |-> {}, visited |-> {}, path |-> <<>>,
                   content |-> <<>>, patterns |-> <<>>,
                   returned |-> [ok |-> FALSE]]

NextRace ==
    \/ save_exists
    \/ save_create_dir_all
    \/ save_create
    \/ save_write_all
    \/ load_exists
    \/ load_read_dir
    \/ \E fname \in DOMAIN race.disk : load_next_entry(fname)
    \/ load_read_to_string
    \/ load_return

SpecRace == InitRace /\ [][NextRace]_vars

-----------------------------------------------------------------------------
(* Properties of the store and the config *)

\* The names of the Snapshots load_patterns returns, whatever the order in
\* which the directory is read
LoadAllNames(exists, files) ==
    UNION {{load_patterns(exists, files, o)[i].name :
               i \in 1..Len(load_patterns(exists, files, o))} :
           o \in ReadDirOrders(files)}

\* C1: starting from an empty or absent store directory, save(S) followed by
\* loadAll() returns exactly one Snapshot, equal to S in every field.
C1_SaveLoadRoundTrip ==
    [][(last.op = "save_pattern" /\ last.fresh /\ last'.op = "load_patterns")
           => last'.patterns = <<last.pattern>>]_vars

\* C8: setDefault(name) fails with a not-found error when loadAll contains no
\* Snapshot named exactly `name`, and then the in-memory default, the config
\* file and the rest of the store directory are as before the call.
C8_SetDefaultNotFound ==
    [][(last'.op = "set_default_scaff"
            /\ last'.name \notin LoadAllNames(dirExists, fs))
           => /\ last'.result = "NotFound"
              /\ config' = config
              /\ fs' = fs
              /\ dirExists' = dirExists]_vars

\* A failed setDefault with a default set before it, in memory and on disk
C8_Witness ==
    /\ last.op = "set_default_scaff"
    /\ last.result = "NotFound"
    /\ config.default_scaff # <<>>
    /\ ConfigFileName \in DOMAIN fs
    /\ ScaffConfig_load(dirExists, fs).value.default_scaff # <<>>

\* C9: setDefault(name) succeeds only when loadAll returns a Snapshot named
\* exactly `name` at the time of the call; after it succeeds the persisted
\* config's default is `name`, and a following load() returns that default.
C9_SetDefaultSucceeds ==
    [][/\ (last'.op = "set_default_scaff" /\ last'.result = "Ok")
           => /\ last'.name \in LoadAllNames(dirExists, fs)
              /\ ConfigFileName \in DOMAIN fs'
              /\ ScaffConfigFromJson(fs'[ConfigFileName])
                     = [ok |-> TRUE, value |-> ScaffConfig(<<last'.name>>)]
       /\ (last.op = "set_default_scaff" /\ last.result = "Ok"
               /\ last'.op = "config_load")
           => /\ last'.result = "Ok"
              /\ config' = ScaffConfig(<<last.name>>)]_vars

\* A successful setDefault of a name that differs from its file-name key,
\* persisted in the config file
C9_Witness ==
    /\ last.op = "set_default_scaff"
    /\ last.result = "Ok"
    /\ last.name = NameMyApi
    /\ ScaffConfig_load(dirExists, fs).value = ScaffConfig(<<NameMyApi>>)

\* C10: clearDefault() always ends with no default set, in memory and in the
\* persisted config, whatever the state before the call, and leaves every
\* stored Snapshot file unchanged; a following load() returns no default.
C10_ClearDefault ==
    [][/\ last'.op = "clear_default_scaff"
           => /\ config'.default_scaff = <<>>
              /\ ScaffConfig_load(dirExists', fs')
                     = [ok |-> TRUE, value |-> ScaffConfig_new]
              /\ \A f \in DOMAIN fs :
                     CodePatternFromJson(fs[f]).ok
                         => (f \in DOMAIN fs' /\ fs'[f] = fs[f])
       /\ (last.op = "clear_default_scaff" /\ last'.op = "config_load")
           => (last'.result = "Ok" /\ config' = ScaffConfig_new)]_vars

\* The arrangements of a finite set in a sequence
Orders(S) ==
    {o \in [1..Cardinality(S) -> S] : \A i, j \in DOMAIN o : i # j => o[i] # o[j]}

\* The files of the directory named *.json, the config file apart, whose
\* content deserializes to a Snapshot
HasJsonSuffix(fname) ==
    /\ Len(fname) > Len(JsonSuffix)
    /\ SubSeq(fname, Len(fname) - Len(JsonSuffix) + 1, Len(fname)) = JsonSuffix
SnapshotFilesOf(files) ==
    {f \in DOMAIN files :
        HasJsonSuffix(f) /\ f # ConfigFileName /\ CodePatternFromJson(files[f]).ok}

\* C11: loadAll() over an existing store directory returns exactly the
\* Snapshots of the *.json files that deserialize, one per file, never the
\* content of config.json, and does not fail when a file is corrupt.
C11_LoadAllSkipsCorrupt ==
    (last.op = "load_patterns" /\ dirExists)
        => /\ last.result = "Ok"
           /\ \E o \in Orders(SnapshotFilesOf(fs)) :
                  last.patterns
                      = [i \in 1..Len(o) |-> CodePatternFromJson(fs[o[i]]).value]

\* A load of a directory holding a corrupt file, a Snapshot in config.json
\* and one more Snapshot, which alone is returned
C11_Witness ==
    /\ last.op = "load_patterns"
    /\ InvalidFileName \in DOMAIN fs
    /\ ConfigFileName \in DOMAIN fs
    /\ CodePatternFromJson(fs[ConfigFileName]).ok
    /\ Cardinality(SnapshotFilesOf(fs)) = 1
    /\ Len(last.patterns) = 1

\* C12: loadAll() returns an empty list without error and without creating
\* anything when the store directory does not exist.
C12_LoadAllAbsentDirectory ==
    [][(last'.op = "load_patterns" /\ ~dirExists)
           => /\ last'.result = "Ok"
              /\ last'.patterns = <<>>
              /\ ~dirExists'
              /\ fs' = fs]_vars

\* A load that found no directory
C12_Witness ==
    /\ last.op = "load_patterns"
    /\ ~dirExists
    /\ last.patterns = <<>>

\* C13: re-saving overwrites: after any sequence of save operations,
\* loadAll() returns at most one Snapshot per name, and for every name that
\* was saved it returns the Snapshot most recently saved under that name.
C13_ResaveOverwrites ==
    last.op = "load_patterns"
        => /\ \A i, j \in 1..Len(last.patterns) :
                  i # j => last.patterns[i].name # last.patterns[j].name
           /\ \A n \in ScaffNames :
                  saved[n] # <<>>
                      => \E i \in 1..Len(last.patterns) :
                             last.patterns[i] = saved[n][1]

\* C14: findByName(name), as validation uses it, returns the first Snapshot
\* of loadAll() whose stored name equals `name` exactly and fails with a
\* not-found error when there is none; validating against a name that is not
\* stored fails with that error and produces no ValidationResult.
C14_FindByNameFirstExactMatch ==
    [][last'.op = "validate_against_scaff"
           => LET ps == last'.loaded
                  hits == {i \in 1..Len(ps) : ps[i].name = last'.name}
              IN  /\ \E o \in ReadDirOrders(fs) :
                         ps = load_patterns(dirExists, fs, o)
                  /\ hits = {}
                         => /\ last'.returned
                                   = [ok |-> FALSE,
                                      error |-> ErrScaffNotFound(last'.name)]
                            /\ UNCHANGED <<scaff, current, result>>
                  /\ hits # {}
                         => /\ last'.result # "NotFound"
                            /\ last'.returned.ok
                                   => /\ scaff' = ps[CHOOSE i \in hits :
                                                         \A j \in hits : i <= j]
                                      /\ last'.returned.value = result'
                                      /\ result'.scaff_name = last'.name
                  /\ last'.name \notin LoadAllNames(dirExists, fs)
                         => (last'.result = "NotFound" /\ ~last'.returned.ok)]_vars

\* A validation that found two different Snapshots of the requested name in
\* what loadAll returned and ran against the first of them
C14_Witness ==
    /\ last.op = "validate_against_scaff"
    /\ last.result = "Ok"
    /\ \E i, j \in 1..Len(last.loaded) :
           /\ i < j
           /\ last.loaded[i].name = last.name
           /\ last.loaded[j].name = last.name
           /\ last.loaded[i] # last.loaded[j]
           /\ \A k \in 1..(i - 1) : last.loaded[k].name # last.name
           /\ scaff = last.loaded[i]

-----------------------------------------------------------------------------
(* Properties of the generator *)

\* The directory "templates" holds an override template of the given name
HasOverride(tdir, name) ==
    tdir # NoTemplates /\ (name \o HbsSuffix) \in DOMAIN tdir[1]

\* The paths of the files of a snapshot whose extension is among exts
PathsWithExtension(files, exts) ==
    {files[i].path : i \in {j \in 1..Len(files) : files[j].extension \in exts}}

\* C15: skeleton generation, when no override template exists for the file
\* kind (override directory absent, or present without a template of that
\* name), succeeds by rendering the built-in default template; a missing
\* override directory is never an error.
C15_DefaultTemplateFallback ==
    [][(/\ last'.op = "generate_from_scaff"
        /\ last'.pattern # <<>>
        /\ \/ /\ last'.pattern[1].language = "Rust"
              /\ ~HasOverride(templates, RustFileName)
           \/ /\ last'.pattern[1].language = "JavaScript/TypeScript"
              /\ ~HasOverride(templates, JsFileName))
           => LET rust == last'.pattern[1].language = "Rust"
              IN  /\ last'.result = "Ok"
                  /\ \A path \in PathsWithExtension(
                                     last'.pattern[1].files,
                                     IF rust THEN RustExtensions ELSE JsExtensions) :
                         /\ path \in DOMAIN out'.files
                         /\ out'.files[path].template
                                = IF rust THEN "DEFAULT_RUST_TEMPLATE"
                                  ELSE "DEFAULT_JS_TEMPLATE"]_vars

\* C16: a successful generation from a Snapshot writes a file at
\* <outputRoot>/<fingerprint.path> for exactly the fingerprints whose
\* extension belongs to the snapshot's language and none for the others,
\* creates the output root and the parent directories when absent, and writes
\* the manifest only if none exists: an existing manifest is left unchanged.
C16_GenerationWritesLanguageFiles ==
    [][(last'.op = "generate_from_scaff" /\ last'.result = "Ok")
           => LET pattern == last'.pattern[1]
                  rust == pattern.language = "Rust"
                  mine == PathsWithExtension(
                              pattern.files,
                              IF rust THEN RustExtensions ELSE JsExtensions)
                  manifest == IF rust THEN <<CargoToml>> ELSE <<PackageJson>>
              IN  /\ \A path \in mine :
                         /\ path \in DOMAIN out'.files
                         /\ out'.files[path].data.original_path = path
                         /\ out'.files[path].data.pattern_name = pattern.name
                         /\ \A k \in 0..(Len(path) - 1) :
                                SubSeq(path, 1, k) \in out'.dirs
                  /\ \A path \in DOMAIN out'.files \ (mine \cup {manifest}) :
                         path \in DOMAIN out.files
                             /\ out'.files[path] = out.files[path]
                  /\ <<>> \in out'.dirs
                  /\ manifest \in DOMAIN out'.files
                  /\ IF manifest \in DOMAIN out.files
                     THEN out'.files[manifest] = out.files[manifest]
                     ELSE out'.files[manifest].data.pattern_name = pattern.name]_vars

\* A successful generation of a Rust snapshot into a directory that held a
\* manifest: the .rs file is written under src, the .tsx file is not, and
\* the manifest is the one that was there
C16_Witness ==
    /\ last.op = "generate_from_scaff"
    /\ last.result = "Ok"
    /\ last.pattern = <<CodePattern(NameApi, "rust scan", "Rust", GenFilesRust, "t1")>>
    /\ <<Src, MainRs>> \in DOMAIN out.files
    /\ <<Src, Ui, AppTsx>> \notin DOMAIN out.files
    /\ <<Src>> \in out.dirs
    /\ out.files[<<CargoToml>>] = UserManifest

\* C17: generation or validation requested for a Snapshot whose language has
\* no mapping in that operation fails with an unsupported-language error that
\* names the language, and produces no generated file, no manifest and no
\* ValidationResult.
C17_UnsupportedLanguage ==
    [][/\ (/\ last'.op = "generate_from_scaff"
           /\ last'.pattern # <<>>
           /\ last'.pattern[1].language \notin {"Rust", "JavaScript/TypeScript"})
              => /\ last'.result = "Err"
                 /\ last'.error.text = "Unsupported language: {}"
                 /\ last'.error.language = last'.pattern[1].language
                 /\ out'.files = out.files
       /\ (last'.op = "validate_against_scaff" /\ last'.result # "NotFound")
              => LET ps == last'.loaded
                     first == CHOOSE i \in 1..Len(ps) :
                                  /\ ps[i].name = last'.name
                                  /\ \A j \in 1..(i - 1) : ps[j].name # last'.name
                 IN  ps[first].language
                         \notin {"JavaScript/TypeScript", "JavaScript",
                                 "TypeScript", "Python", "Java", "Go", "Rust",
                                 "JSON", "HTML", "CSS"}
                         => /\ ~last'.returned.ok
                            /\ last'.returned.error.text
                                   = "Unsupported language for validation: {}"
                            /\ last'.returned.error.language = ps[first].language
                            /\ UNCHANGED <<scaff, current, result>>]_vars

\* A generation refused for a snapshot of a language validation maps and
\* generation does not, which left no file in the output directory
C17_Witness ==
    /\ last.op = "generate_from_scaff"
    /\ last.result = "Err"
    /\ last.error = ErrGenerationLanguage("Python")
    /\ out.files = <<>>

-----------------------------------------------------------------------------
(* Properties of the reconciler *)

CountOf(seq, x) == Cardinality({i \in 1..Len(seq) : seq[i] = x})
OccursOnce(files, path) == Cardinality({i \in 1..Len(files) : files[i].path = path}) = 1
FileAt(files, path) == files[CHOOSE i \in 1..Len(files) : files[i].path = path]

\* C2: compare(S, S.files) yields isValid = true with empty missingFiles and
\* empty missingItems for any Snapshot S, also when S lists a path more than
\* once or a category lists a name more than once.
C2_Reflexive ==
    current = scaff.files
        => /\ result.is_valid
           /\ result.missing_files = <<>>
           /\ result.missing_items = <<>>

\* C3: isValid is true if and only if missingFiles and missingItems are both
\* empty; extraFiles and extraItems never affect it.
C3_ValidIffNothingMissing ==
    result.is_valid <=> (result.missing_files = <<>> /\ result.missing_items = <<>>)

\* A valid result that reports a declaration added to a file of the snapshot
C3_Witness ==
    /\ edit.kind = "add_item"
    /\ result.is_valid
    /\ result.extra_items
           = <<ValidationIssue(edit.path, edit.item_type, edit.name)>>

\* C4: for each path present in both lists (taken here where the path names
\* one file in each) and each category, the name lists are compared as sets:
\* missingItems holds exactly one entry per name of the snapshot set absent
\* from the current set, extraItems exactly one per name of the current set
\* absent from the snapshot set, however the names are ordered or repeated.
C4_CategoriesComparedAsSets ==
    \A p \in PathsOf(scaff.files) \cap PathsOf(current) :
        (OccursOnce(scaff.files, p) /\ OccursOnce(current, p)) =>
            \A cat \in Categories, n \in ItemNames :
                LET scaff_set == HashSetOf(FileAt(scaff.files, p)[cat])
                    current_set == HashSetOf(FileAt(current, p)[cat])
                    issue == ValidationIssue(p, ItemType(cat), n)
                IN  /\ CountOf(result.missing_items, issue)
                          = IF n \in scaff_set \ current_set THEN 1 ELSE 0
                    /\ CountOf(result.extra_items, issue)
                          = IF n \in current_set \ scaff_set THEN 1 ELSE 0

\* C5: when the current files are S.files with one declaration name removed
\* from one category of one file, compare yields exactly one missingItem, with
\* that file's path, that category and that name, and isValid = false with
\* non-empty suggestions.
C5_RemovedNameIsTheOneMissingItem ==
    (edits = 1 /\ edit.kind = "remove_item")
        => /\ result.missing_items
                  = <<ValidationIssue(edit.path, edit.item_type, edit.name)>>
           /\ ~result.is_valid
           /\ result.suggestions # <<>>

\* C6: a path is in missingFiles exactly when it is a snapshot path absent
\* from the current files; each such path makes isValid false and adds a
\* suggestion naming the file and the number of declarations the snapshot
\* expects in it over the four categories.
C6_MissingFiles ==
    /\ HashSetOf(result.missing_files) = PathsOf(scaff.files) \ PathsOf(current)
    /\ result.missing_files # <<>> => ~result.is_valid
    /\ \A i \in 1..Len(scaff.files) :
           scaff.files[i].path \notin PathsOf(current)
               => SuggestCreateFile(scaff.files[i].path, ItemCount(scaff.files[i]))
                      \in HashSetOf(result.suggestions)
    /\ Cardinality({i \in 1..Len(result.suggestions) :
                        "path" \in DOMAIN result.suggestions[i]})
           = Len(result.missing_files)

\* A missing file in which the snapshot expects an implementation block
C6_Witness ==
    /\ edit.kind = "remove_file"
    /\ edit.path \in HashSetOf(result.missing_files)
    /\ \E i \in 1..Len(scaff.files) :
           /\ scaff.files[i].path = edit.path
           /\ scaff.files[i].implementations # <<>>
           /\ SuggestCreateFile(edit.path, ItemCount(scaff.files[i]))
                  \in HashSetOf(result.suggestions)

\* C7: adding to the current files a file whose path is absent from the
\* snapshot never changes isValid, missingFiles or missingItems, and the path
\* appears in extraFiles.
C7_ExtraFileChangesNothingElse ==
    [][(edits' = edits + 1 /\ edit'.kind = "add_file"
            /\ edit'.path \notin PathsOf(scaff.files))
           => /\ result'.is_valid = result.is_valid
              /\ result'.missing_files = result.missing_files
              /\ result'.missing_items = result.missing_items
              /\ edit'.path \in HashSetOf(result'.extra_files)]_vars

\* A file outside the snapshot added to a tree that matches the snapshot
C7_Witness ==
    /\ edit.kind = "add_file"
    /\ edit.path \notin PathsOf(scaff.files)
    /\ scaff.files # <<>>
    /\ edit.path \in HashSetOf(result.extra_files)
    /\ result.is_valid
    /\ result.missing_files = <<>>

-----------------------------------------------------------------------------
(* Properties of the extractor *)

RECURSIVE Concat(_)
Concat(seqs) == IF seqs = <<>> THEN <<>> ELSE Head(seqs) \o Concat(Tail(seqs))

RECURSIVE PreOrder(_, _)
\* The paths of a node and of everything below it, a node before its
\* children and the children first to last
PreOrder(root, path) ==
    <<path>> \o Concat([i \in 1..Len(NodeAt(root, path).children) |->
                           PreOrder(root, Append(path, i))])

\* Every node below the root, in pre-order
NodesBelow(root) == Tail(PreOrder(root, <<>>))

ParentOf(root, path) == NodeAt(root, SubSeq(path, 1, Len(path) - 1))

RECURSIVE Dedup(_)
\* The distinct entries of a list, each at its first occurrence
Dedup(list) ==
    IF list = <<>> THEN <<>>
    ELSE LET rest == Dedup(SubSeq(list, 1, Len(list) - 1))
         IN  PushIfAbsent(rest, list[Len(list)])

\* The name a named node contributes to a category: the node of a rule, an
\* interface, or a type spec of a Go type declaration
NameOfNode(root, path, language, category) ==
    LET node == NodeAt(root, path)
        rules == {r \in NameRules : /\ r[1] = node.kind
                                    /\ r[2] = language
                                    /\ r[3] = category}
    IN  IF rules # {}
        THEN FieldText(node, (CHOOSE r \in rules : TRUE)[4])
        ELSE IF /\ node.kind = "interface_declaration"
                /\ language \in {"typescript", "java"}
                /\ category = "classes"
                /\ FieldText(node, "name") # <<>>
        THEN <<InterfaceName(FieldText(node, "name")[1])>>
        ELSE IF /\ node.kind = "type_spec"
                /\ language = "go"
                /\ category = "structs"
                /\ ParentOf(root, path).kind = "type_declaration"
        THEN FieldText(node, "name")
        ELSE <<>>

\* The names of a category, in the pre-order of the nodes that carry them
NamesInPreOrder(root, language, category) ==
    LET paths == NodesBelow(root)
    IN  Concat([i \in DOMAIN paths |->
                   NameOfNode(root, paths[i], language, category)])

CodeLanguages == {"rust", "javascript", "typescript", "python", "java", "go"}

\* C18: extraction visits every node of the tree exactly once in pre-order,
\* so declarations nested at any depth are recorded, each recognized named
\* node contributes exactly one name, and the names of each category are in
\* tree pre-order with duplicates kept.
C18_ExtractionPreOrder ==
    (walk.phase = "done" /\ walk.language \in CodeLanguages)
        => /\ walk.visited = NodesBelow(walk.root)
           /\ \A category \in Categories :
                  walk.lists[category]
                      = NamesInPreOrder(walk.root, walk.language, category)

\* The names of the type specs directly under one node, first to last
TypeSpecNames(node) ==
    Concat([i \in DOMAIN node.children |->
               IF node.children[i].kind = "type_spec"
               THEN FieldText(node.children[i], "name") ELSE <<>>])

\* The type specs of every type declaration, block after block
GroupedTypeNames(root) ==
    LET paths == NodesBelow(root)
    IN  Concat([i \in DOMAIN paths |->
                   IF NodeAt(root, paths[i]).kind = "type_declaration"
                   THEN TypeSpecNames(NodeAt(root, paths[i])) ELSE <<>>])

\* C19: a grouped type block yields one type-declaration entry per inner
\* type spec, in order, and none for the wrapper: specs X and Y give [X, Y],
\* and the later descent into the wrapper's children records none of them a
\* second time.
C19_GroupedTypeBlock ==
    (walk.phase = "done" /\ walk.language = "go")
        => /\ walk.lists.structs = GroupedTypeNames(walk.root)
           /\ Len(walk.lists.structs)
                  = Len(NamesInPreOrder(walk.root, "go", "structs"))
           /\ walk.root = GoGroupedTree
                  => SubSeq(walk.lists.structs, 1, 2) = <<"X", "Y">>

\* The block of X and Y extracted: X and Y once each, then the Z of the
\* function body
C19_Witness ==
    /\ walk.phase = "done"
    /\ walk.root = GoGroupedTree
    /\ walk.lists.structs = <<"X", "Y", "Z">>

\* The tag name of an element: the tag_name token of its start tag
TagNames(node) ==
    Concat([i \in DOMAIN node.children |->
               IF node.children[i].kind = "start_tag"
               THEN LET tag == node.children[i].children
                    IN  Concat([j \in DOMAIN tag |->
                                   IF tag[j].kind = "tag_name"
                                   THEN <<tag[j].text>> ELSE <<>>])
               ELSE <<>>])

\* The selectors of a rule set, trimmed: the members of its selector list,
\* not the commas between them
SelectorTexts(node) ==
    Concat([i \in DOMAIN node.children |->
               IF node.children[i].kind = "selectors"
               THEN LET members == node.children[i].children
                    IN  Concat([j \in DOMAIN members |->
                                   IF members[j].kind # ","
                                          /\ trim(members[j].text) # <<>>
                                   THEN <<trim(members[j].text)>> ELSE <<>>])
               ELSE <<>>])

\* The names a markup or data file holds, in pre-order, repeats included
MarkupNames(root, language) ==
    LET paths == NodesBelow(root)
    IN  Concat([i \in DOMAIN paths |->
                   LET node == NodeAt(root, paths[i])
                   IN  IF language = "html" /\ node.kind = "element"
                       THEN TagNames(node)
                       ELSE IF language = "css" /\ node.kind = "rule_set"
                       THEN SelectorTexts(node)
                       ELSE IF language = "json" /\ node.kind = "pair"
                       THEN FieldText(node, "key")
                       ELSE <<>>])

\* C20: for markup and data formats the names are deduplicated within one
\* file: element tag names and trimmed selector texts are the classes, object
\* keys the structs, each distinct name once in first-occurrence order; three
\* identical element tags give one entry.
C20_MarkupNamesDeduplicated ==
    (walk.phase = "done" /\ walk.language \in {"html", "css", "json"})
        => LET names == Dedup(MarkupNames(walk.root, walk.language))
           IN  /\ walk.lists.functions = <<>>
               /\ walk.lists.implementations = <<>>
               /\ walk.language \in {"html", "css"}
                      => walk.lists.classes = names /\ walk.lists.structs = <<>>
               /\ walk.language = "json"
                      => walk.lists.structs = names /\ walk.lists.classes = <<>>

\* The (kind, language) pairs the match of extract_from_node has an arm for
Arms ==
    {<<r[1], r[2]>> : r \in NameRules}
        \cup {<<"interface_declaration", "typescript">>,
              <<"interface_declaration", "java">>,
              <<"type_declaration", "go">>, <<"element", "html">>,
              <<"rule_set", "css">>, <<"pair", "json">>}

\* A node of an arm that reads one field, without that field
Nameless(node, language) ==
    \/ \E r \in NameRules : /\ r[1] = node.kind
                            /\ r[2] = language
                            /\ r[4] \notin DOMAIN node.fields
    \/ /\ node.kind = "interface_declaration"
       /\ language \in {"typescript", "java"}
       /\ "name" \notin DOMAIN node.fields
    \/ /\ node.kind = "element" /\ language = "html"
       /\ "start_tag" \notin DOMAIN node.fields
    \/ /\ node.kind = "pair" /\ language = "json"
       /\ "key" \notin DOMAIN node.fields

Skipped(node, language) ==
    <<node.kind, language>> \notin Arms \/ Nameless(node, language)

\* C21: a node without a resolvable name, or of a (kind, language) pair
\* without a rule, records nothing and raises no error, and its descendants
\* are still traversed; every tree gets a fingerprint, with four empty
\* categories when nothing in it is recognized.
C21_UnrecognizedNodesSkipped ==
    [][/\ (walk.phase = "walking" /\ walk.todo # <<>>)
            => LET path == Head(walk.todo)
                   node == NodeAt(walk.root, path)
                   n == Len(node.children)
               IN  Skipped(node, walk.language)
                       => /\ walk'.lists = walk.lists
                          /\ walk'.phase = "walking"
                          /\ Len(walk'.todo) >= n
                          /\ SubSeq(walk'.todo, 1, n)
                                 = [i \in 1..n |-> Append(path, i)]
       /\ walk.phase = "walking" => walk'.phase \in {"walking", "done"}
       /\ walk'.phase = "done"
            => /\ DOMAIN walk'.lists = Categories
               /\ (\A i \in DOMAIN NodesBelow(walk.root) :
                       Skipped(NodeAt(walk.root, NodesBelow(walk.root)[i]),
                               walk.language))
                      => walk'.lists = NoLists]_vars

\* The nameless class and the pair passed over, the method and the function
\* below them recorded
C21_Witness ==
    /\ walk.phase = "done"
    /\ walk.root = JsLooseTree
    /\ walk.lists.classes = <<>>
    /\ walk.lists.structs = <<>>
    /\ walk.lists.functions = <<"m", "h">>

-----------------------------------------------------------------------------
(* Properties of the directory scan *)

RECURSIVE FilesUnder(_, _, _)
\* The fingerprints of the files under a directory that have an extension
\* of the language and can be read and parsed, a directory that cannot be
\* read counting as empty
FilesUnder(entry, prefix, language) ==
    LET here == Append(prefix, entry.name)
    IN  IF entry.kind = "dir"
        THEN IF entry.read
             THEN Concat([i \in DOMAIN entry.entries |->
                             IF entry.entries[i].kind = "error" THEN <<>>
                             ELSE FilesUnder(entry.entries[i], here, language)])
             ELSE <<>>
        ELSE IF /\ \E i \in DOMAIN SUPPORTED_LANGUAGES :
                       /\ SUPPORTED_LANGUAGES[i].name = language
                       /\ \E j \in DOMAIN SUPPORTED_LANGUAGES[i].extensions :
                              <<SUPPORTED_LANGUAGES[i].extensions[j]>>
                                  = extension(entry.name)
                /\ entry.read
                /\ entry.tree # <<>>
        THEN <<extract_file_pattern(entry.tree[1], here, language)>>
        ELSE <<>>

\* C22: a directory scan for a language returns one fingerprint for each
\* file found recursively under the directory whose extension is of the
\* language and whose content can be read and parsed; what cannot be read or
\* parsed is omitted without aborting the scan of the rest, and a scan for
\* an unknown language id returns an empty list without error.
C22_DirectoryScan ==
    scan.phase = "returned"
        => /\ scan.dir.kind = "dir"
               => scan.file_patterns = FilesUnder(scan.dir, <<>>, scan.language)
           /\ scan.language \notin GrammarLanguages => scan.file_patterns = <<>>

\* A scan that passed an unreadable file, a file without a tree, an entry
\* in error and an unreadable directory, and returned the files around them
C22_Witness ==
    /\ scan.phase = "returned"
    /\ scan.dir = SourceDir
    /\ scan.language = "rust"
    /\ Len(scan.file_patterns) = 2
    /\ scan.file_patterns[1].path = <<Dir_project, File_a_rs>>
    /\ scan.file_patterns[2].path = <<Dir_project, Dir_src, File_e_rs>>

-----------------------------------------------------------------------------
(* Properties of repeated and aggregated comparison *)

\* The entries of a list with the number of times each occurs
BagOf(list) ==
    [x \in HashSetOf(list) |-> Cardinality({i \in 1..Len(list) : list[i] = x})]

C24_AggregateSuggestions ==
    LET given == HashSetOf(result.suggestions)
    IN  /\ SuggestGenerate(scaff.name) \in given <=> result.missing_files # <<>>
        /\ SuggestReview \in given <=> result.missing_items # <<>>
        /\ SuggestUpdate \in given
               <=> Len(result.extra_files) > Len(result.missing_files)
        /\ ~result.is_valid => result.suggestions # <<>>

\* As many extra files as missing ones: regenerate, and no update proposed
C24_Witness ==
    /\ edit.kind = "rename_file"
    /\ result.extra_files # <<>>
    /\ Len(result.extra_files) = Len(result.missing_files)
    /\ SuggestGenerate(scaff.name) \in HashSetOf(result.suggestions)
    /\ SuggestUpdate \notin HashSetOf(result.suggestions)

-----------------------------------------------------------------------------
(* Properties of the commands *)

\* C28: generation and validation resolve a snapshot name to the same
\* Snapshot: for every name and every store state reached by saves, the
\* generator's lookup succeeds iff the validator's does, and when both
\* succeed they return the same Snapshot.
C28_SameResolution ==
    \A n \in ScaffNames, o \in ReadDirOrders(fs) :
        LET generated == generator_load_scaff_pattern(n)
            validated == load_scaff_pattern(load_patterns(dirExists, fs, o), n)
        IN  /\ generated.ok <=> validated.ok
            /\ (generated.ok /\ validated.ok)
                   => generated.value = validated.value

\* C26: save(S) changes only the stored Snapshot named S.name: every
\* Snapshot of another name that loadAll() returned before the save is still
\* returned, unchanged, after it, and the config file is untouched.
C26_SaveFrame ==
    [][last'.op = "save_pattern"
          => /\ \A o \in ReadDirOrders(fs), o2 \in ReadDirOrders(fs') :
                    LET before == load_patterns(dirExists, fs, o)
                        after == load_patterns(dirExists', fs', o2)
                    IN  \A i \in 1..Len(before) :
                            before[i].name # last'.pattern.name
                                => before[i] \in HashSetOf(after)
             /\ ConfigFileName \in DOMAIN fs' <=> ConfigFileName \in DOMAIN fs
             /\ ConfigFileName \in DOMAIN fs
                    => fs'[ConfigFileName] = fs[ConfigFileName]]_vars

\* The default scaff the config file holds: None when there is no file,
\* when it does not parse, or when it holds none
PersistedDefault ==
    LET loaded == ScaffConfig_load(dirExists, fs)
    IN  IF loaded.ok THEN loaded.value.default_scaff ELSE <<>>

\* C27: after any sequence of save, setDefault and clearDefault in one store
\* directory, the persisted default, when set, names a Snapshot that
\* loadAll() returns.
C27_DefaultNamesStoredSnapshot ==
    PersistedDefault # <<>>
        => \A o \in ReadDirOrders(fs) :
               \E q \in HashSetOf(load_patterns(dirExists, fs, o)) :
                   q.name = PersistedDefault[1]

\* C25: for generate and validate, a name given is the name used, whatever
\* the persisted default; with no name given the persisted default is used;
\* with no name given and no default set the command fails before it loads
\* a Snapshot, and writes nothing to the store or the output directory.
C25_NameResolution ==
    [][(cmd'.runs = cmd.runs + 1 /\ cmd'.command \in {"generate", "validate"})
          => LET given == cmd'.scaff
                 ran == last'.op \in {"generate_from_scaff",
                                      "validate_against_scaff"}
             IN  /\ given # <<>> => ran /\ last'.name = given[1]
                 /\ (given = <<>> /\ PersistedDefault # <<>>)
                        => ran /\ last'.name = PersistedDefault[1]
                 /\ (given = <<>> /\ PersistedDefault = <<>>)
                        => /\ last'.op = "resolve_scaff_name"
                           /\ last'.result = "Err"
                           /\ UNCHANGED <<dirExists, fs, out, scaff, current,
                                          result>>]_vars

\* A command run with a name other than the default the config holds
C25_Witness ==
    /\ cmd.command \in {"generate", "validate"}
    /\ cmd.scaff # <<>>
    /\ PersistedDefault # <<>>
    /\ PersistedDefault # cmd.scaff
    /\ last.op \in {"generate_from_scaff", "validate_against_scaff"}
    /\ last.name = cmd.scaff[1]

\* C29: saving a scan of a directory under a name and then validating the
\* unchanged directory against that name reports isValid = true, for each
\* of the nine languages the save command accepts; the files the save
\* created in the store directory can only appear as extraFiles.
C29_SaveThenValidate ==
    [][(/\ cmd.command = "save"
        /\ last.op = "save_pattern"
        /\ cmd'.runs = cmd.runs + 1
        /\ cmd'.command = "validate"
        /\ cmd'.scaff = <<cmd.name>>)
          => /\ last'.op = "validate_against_scaff"
             /\ last'.result = "Ok"
             /\ result'.is_valid
             /\ result'.missing_files = <<>>
             /\ result'.missing_items = <<>>]_vars

-----------------------------------------------------------------------------
(* Properties of a load and a save running at once *)

\* What the load returned for the file the save writes, and the file names
\* of the other snapshots of the store
ReturnedFor(name) ==
    SelectSeq(race.returned.value, LAMBDA p : p.name = name)
OtherSnapshotFiles ==
    {f \in DOMAIN race.before :
        IsPatternFile(f) /\ f # PatternFileName(race.pattern.name)}

\* C30: when a loadAll() of one process interleaves with a save of a
\* Snapshot by another process on the same store directory, the load never
\* fails and never returns a partially written Snapshot: for the file being
\* written it returns the complete old Snapshot, the complete new Snapshot,
\* or nothing, and every other stored Snapshot is returned as usual.
C30_ConcurrentLoad ==
    (race.phase = "race" /\ race.load = "done")
        => LET fname == PatternFileName(race.pattern.name)
               old == IF fname \in DOMAIN race.before
                      THEN {from_str(race.before[fname]).value}
                      ELSE {}
               mine == ReturnedFor(race.pattern.name)
           IN  /\ race.returned.ok
               /\ Len(mine) <= 1
               /\ \A i \in 1..Len(mine) : mine[i] \in old \cup {race.pattern}
               /\ \A f \in OtherSnapshotFiles :
                      LET other == from_str(race.before[f]).value
                      IN  Len(ReturnedFor(other.name)) = 1
                          /\ ReturnedFor(other.name)[1] = other

====
